---------------------------- MODULE Spec2Model ----------------------------
(***************************************************************************)
(* Thermocouple voltage/temperature conversion (thermocouple_sensor.c).    *)
(*                                                                         *)
(* The library computes in C `double`.  TLC has only 32-bit integers, so   *)
(* the module first builds IEEE-754 binary64 arithmetic (round to nearest, *)
(* ties to even) over multi-limb naturals, then the coefficient and range  *)
(* tables as the decimal literals of the source, then the four functions   *)
(* of the source and the state machine of their callers.                   *)
(***************************************************************************)
EXTENDS Integers, Sequences, FiniteSets, TLC

(***************************************************************************)
(* Multi-limb naturals: little-endian sequences of limbs in 0..Base-1,     *)
(* without leading (high) zero limbs; <<>> is 0.                           *)
(***************************************************************************)
Base == 2^14

\* The largest element of a non-empty set of integers
BigTop(S) == CHOOSE m \in S : \A k \in S : k <= m

\* a without its high zero limbs
BigTrim(a) ==
    LET nz == {i \in 1..Len(a) : a[i] # 0}
    IN  IF nz = {} THEN <<>> ELSE SubSeq(a, 1, BigTop(nz))

\* The limbs of the natural whose columns are x[1], x[2], ... (each a natural
\* below 2^31, column i weighing Base^(i-1)).  Two passes bring every column
\* below Base + 8; the remaining carries are 0 or 1 and are looked ahead:
\* a column of Base or more generates one, a column of Base - 1 passes it on.
BigNorm(x) ==
    LET n == Len(x)
        y == SubSeq([i \in 1..(n + 1) |->
                       (IF i <= n THEN x[i] % Base ELSE 0)
                     + (IF i > 1 THEN x[i - 1] \div Base ELSE 0)], 1, n + 1)
        z == SubSeq([i \in 1..(n + 2) |->
                       (IF i <= n + 1 THEN y[i] % Base ELSE 0)
                     + (IF i > 1 THEN y[i - 1] \div Base ELSE 0)], 1, n + 2)
        c(i) == \E j \in 1..(i - 1) :
                    /\ z[j] >= Base
                    /\ \A t \in (j + 1)..(i - 1) : z[t] = Base - 1
    IN  BigTrim([i \in 1..(n + 2) |-> (z[i] + (IF c(i) THEN 1 ELSE 0)) % Base])

BigLimb(a, i) == IF i >= 1 /\ i <= Len(a) THEN a[i] ELSE 0

BigMax(m, n) == IF m >= n THEN m ELSE n

BigFromNat(n) == BigNorm(<<n>>)

BigAdd(a, b) ==
    BigNorm([i \in 1..BigMax(Len(a), Len(b)) |-> BigLimb(a, i) + BigLimb(b, i)])

\* a - b, for a >= b: a limb borrows when a lower column is negative and
\* every column in between is zero.
BigSub(a, b) ==
    LET x == SubSeq([i \in 1..Len(a) |-> a[i] - BigLimb(b, i)], 1, Len(a))
        w(i) == \E j \in 1..(i - 1) :
                    /\ x[j] < 0
                    /\ \A t \in (j + 1)..(i - 1) : x[t] = 0
    IN  BigTrim([i \in 1..Len(a) |-> (x[i] - (IF w(i) THEN 1 ELSE 0)) % Base])

\* a * k for a small factor 0 <= k < 2^16
BigMulSmall(a, k) == BigNorm([i \in 1..Len(a) |-> a[i] * k])

\* a * b for operands of at most 4 limbs each (column sums stay below 2^31)
BigMul(a, b) ==
    IF Len(a) = 0 \/ Len(b) = 0 THEN <<>>
    ELSE BigNorm([k \in 1..(Len(a) + Len(b) - 1) |->
                    BigLimb(a, 1) * BigLimb(b, k) + BigLimb(a, 2) * BigLimb(b, k - 1)
                  + BigLimb(a, 3) * BigLimb(b, k - 2) + BigLimb(a, 4) * BigLimb(b, k - 3)])

\* Long division by a small divisor 0 < k < 2^16, from the top limb a[i] down
\* to limb 1 with incoming remainder rem: the quotient limbs, highest first,
\* followed by the final remainder.
RECURSIVE BigDivStep(_, _, _, _)
BigDivStep(a, k, i, rem) ==
    IF i = 0 THEN <<rem>>
    ELSE <<(rem * Base + a[i]) \div k>> \o BigDivStep(a, k, i - 1, (rem * Base + a[i]) % k)

\* [q |-> floor(a / k), r |-> a mod k]
BigDivSmall(a, k) ==
    LET d == BigDivStep(a, k, Len(a), 0)
    IN  [q |-> BigTrim([i \in 1..Len(a) |-> d[Len(a) + 1 - i]]), r |-> d[Len(a) + 1]]

\* -1, 0, 1 as a < b, a = b, a > b
BigCmp(a, b) ==
    LET df == {i \in 1..Len(a) : a[i] # BigLimb(b, i)}
    IN  IF Len(a) < Len(b) THEN -1
        ELSE IF Len(a) > Len(b) THEN 1
        ELSE IF df = {} THEN 0
        ELSE IF a[BigTop(df)] < b[BigTop(df)] THEN -1
        ELSE 1

\* The number of bits of a limb 0 <= n < Base
SmallBitLen(n) == IF n = 0 THEN 0 ELSE CHOOSE b \in 1..14 : 2^(b - 1) <= n /\ n < 2^b

BigBitLen(a) == IF Len(a) = 0 THEN 0 ELSE 14 * (Len(a) - 1) + SmallBitLen(a[Len(a)])

\* a * 2^d
BigShl(a, d) ==
    LET q == d \div 14
        r == d % 14
    IN  IF Len(a) = 0 THEN <<>>
        ELSE BigNorm([j \in 1..(Len(a) + q) |-> IF j <= q THEN 0 ELSE a[j - q] * 2^r])

\* floor(a / 2^k)
BigShr(a, k) ==
    LET q == k \div 14
        r == k % 14
    IN  IF Len(a) <= q THEN <<>>
        ELSE BigTrim([j \in 1..(Len(a) - q) |->
                        (a[j + q] \div 2^r) + (BigLimb(a, j + q + 1) % 2^r) * 2^(14 - r)])

\* bit i of a (bit 0 is the lowest)
BigBit(a, i) == (BigLimb(a, (i \div 14) + 1) \div 2^(i % 14)) % 2

\* TRUE iff bits 0..i-1 of a are all zero
BigLowZero(a, i) ==
    /\ \A j \in 1..(i \div 14) : BigLimb(a, j) = 0
    /\ BigLimb(a, (i \div 14) + 1) % 2^(i % 14) = 0

(***************************************************************************)
(* C double (IEEE-754 binary64), round to nearest, ties to even.           *)
(* A double is [s, m, e] with value (-1)^s * m * 2^e, where m is a 53-bit  *)
(* multi-limb natural (2^52 <= m < 2^53), or m = <<>> for zero.  Every     *)
(* magnitude the library produces lies far inside the normal range         *)
(* (2^-1022 .. 2^1023), so subnormals, infinities and NaN are not          *)
(* represented; a negative zero only arises as an intermediate product in  *)
(* Horner's loop and is absorbed by the next addition, so zero is kept     *)
(* unsigned.                                                               *)
(***************************************************************************)
DZero == [s |-> 0, m |-> <<>>, e |-> 0]

DIsZero(a) == a.m = <<>>

\* The double nearest to (-1)^s * (S + f) * 2^e, where S is a natural and
\* 0 <= f < 1 with f > 0 iff sticky (sticky requires S of 55 bits or more).
DRound(s, S, e, sticky) ==
    LET L == BigBitLen(S)
    IN  IF L = 0 THEN DZero
        ELSE IF L <= 53 THEN [s |-> s, m |-> BigShl(S, 53 - L), e |-> e - (53 - L)]
        ELSE LET k  == L - 53
                 q  == BigShr(S, k)
                 up == /\ BigBit(S, k - 1) = 1
                       /\ (~BigLowZero(S, k - 1) \/ sticky \/ BigBit(q, 0) = 1)
                 q2 == IF up THEN BigAdd(q, <<1>>) ELSE q
             IN  IF BigBitLen(q2) = 54
                 THEN [s |-> s, m |-> BigShr(q2, 1), e |-> e + k + 1]
                 ELSE [s |-> s, m |-> q2, e |-> e + k]

\* floor(a / 10^k) and whether anything was cut off
RECURSIVE BigDivPow10(_, _, _)
BigDivPow10(a, k, sticky) ==
    IF k = 0 THEN [q |-> a, sticky |-> sticky]
    ELSE LET n == IF k >= 4 THEN 4 ELSE k
             d == BigDivSmall(a, 10^n)
         IN  IF d.r # 0 THEN BigDivPow10(d.q, k - n, TRUE)
             ELSE BigDivPow10(d.q, k - n, sticky)

RECURSIVE BigMulPow10(_, _)
BigMulPow10(a, k) ==
    IF k = 0 THEN a
    ELSE IF k >= 4 THEN BigMulSmall(BigMulPow10(a, k - 4), 10^4)
    ELSE BigMulSmall(BigMulPow10(a, k - 1), 10)

\* The double a C compiler makes of the decimal literal
\* sign * (hi * 10^6 + lo) * 10^e10  (sign = 1 or -1, 0 <= lo < 10^6):
\* the correctly rounded conversion.  For a negative exponent the digits are
\* scaled by 2^J, with J large enough to leave a quotient of 55 bits or more.
Dec(sign, hi, lo, e10) ==
    LET s == IF sign < 0 THEN 1 ELSE 0
        N == BigAdd(BigMulSmall(BigMulSmall(BigFromNat(hi), 1000), 1000), BigFromNat(lo))
    IN  IF N = <<>> THEN DZero
        ELSE IF e10 >= 0 THEN DRound(s, BigMulPow10(N, e10), 0, FALSE)
        ELSE LET J == 58 + (10 * (-e10)) \div 3
                 d == BigDivPow10(BigShl(N, J), -e10, FALSE)
             IN  DRound(s, d.q, -J, d.sticky)

\* An integer n (|n| < 2^31) times 2^e, exactly
DFromInt(n, e) ==
    IF n < 0 THEN DRound(1, BigFromNat(-n), e, FALSE) ELSE DRound(0, BigFromNat(n), e, FALSE)

DNeg(a) == IF DIsZero(a) THEN a ELSE [a EXCEPT !.s = 1 - a.s]

\* a * b
DMul(a, b) ==
    IF DIsZero(a) \/ DIsZero(b) THEN DZero
    ELSE DRound((a.s + b.s) % 2, BigMul(a.m, b.m), a.e + b.e, FALSE)

\* a + b, for a.e >= b.e, both non-zero.  When the exponents are 56 or more
\* apart, b is below an eighth of a's unit in the last place.
DAddOrdered(a, b) ==
    LET d == a.e - b.e
        A == BigShl(a.m, d)
        c == BigCmp(A, b.m)
    IN  IF d >= 56 THEN a
        ELSE IF a.s = b.s THEN DRound(a.s, BigAdd(A, b.m), b.e, FALSE)
        ELSE IF c = 0 THEN DZero
        ELSE IF c > 0 THEN DRound(a.s, BigSub(A, b.m), b.e, FALSE)
        ELSE DRound(b.s, BigSub(b.m, A), b.e, FALSE)

\* a + b
DAdd(a, b) ==
    IF DIsZero(a) THEN b
    ELSE IF DIsZero(b) THEN a
    ELSE IF a.e >= b.e THEN DAddOrdered(a, b)
    ELSE DAddOrdered(b, a)

DSub(a, b) == DAdd(a, DNeg(b))

\* |a| < |b| for non-zero a, b
DMagLt(a, b) == a.e < b.e \/ (a.e = b.e /\ BigCmp(a.m, b.m) < 0)

\* a < b
DLt(a, b) ==
    IF DIsZero(a) THEN ~DIsZero(b) /\ b.s = 0
    ELSE IF DIsZero(b) THEN a.s = 1
    ELSE IF a.s # b.s THEN a.s = 1
    ELSE IF a.s = 0 THEN DMagLt(a, b)
    ELSE DMagLt(b, a)

\* a <= b, a >= b, a > b as C's operators on doubles
DLe(a, b) == ~DLt(b, a)
DGe(a, b) == ~DLt(a, b)
DGt(a, b) == DLt(b, a)

\* The neighbouring doubles of a non-zero a: the next one away from zero and
\* the next one towards zero.
DMagUp(a) ==
    LET m1 == BigAdd(a.m, <<1>>)
    IN  IF BigBitLen(m1) = 54 THEN [a EXCEPT !.m = BigShr(m1, 1), !.e = a.e + 1]
        ELSE [a EXCEPT !.m = m1]

DMagDown(a) ==
    LET m1 == BigSub(a.m, <<1>>)
    IN  IF BigBitLen(m1) = 52
        THEN [a EXCEPT !.m = BigAdd(BigShl(m1, 1), <<1>>), !.e = a.e - 1]
        ELSE [a EXCEPT !.m = m1]

\* The smallest positive double, 2^-1074, in the form above
DTiny == [s |-> 0, m |-> BigShl(<<1>>, 52), e |-> -1126]

\* nextafter(a, +inf) and nextafter(a, -inf)
DNextUp(a) ==
    IF DIsZero(a) THEN DTiny
    ELSE IF a.s = 0 THEN DMagUp(a) ELSE DMagDown(a)

DNextDown(a) ==
    IF DIsZero(a) THEN DNeg(DTiny)
    ELSE IF a.s = 0 THEN DMagDown(a) ELSE DMagUp(a)

(***************************************************************************)
(* The C library's exp() and pow(x, 2.0) (math.h), used by the type K      *)
(* correction only.  pow(x, 2.0) is the correctly rounded square.  exp(x)  *)
(* is computed the way a libm does: x = k*ln2 + r with |r| <= ln2/2, the   *)
(* Taylor polynomial of degree 15 in r, and a scaling by 2^k.  The last    *)
(* bit or two of a particular libm may differ; nothing below depends on    *)
(* them.                                                                   *)
(***************************************************************************)
\* a * 2^k, exactly
DScale(a, k) == IF DIsZero(a) THEN a ELSE [a EXCEPT !.e = a.e + k]

\* The integer nearest to a, for |a| < 2^30
DNearestInt(a) ==
    LET n == IF DIsZero(a) \/ a.e < -54 THEN <<>>
             ELSE IF a.e >= 0 THEN BigShl(a.m, a.e)
             ELSE BigShr(BigAdd(a.m, BigShl(<<1>>, -a.e - 1)), -a.e)
        v == BigLimb(n, 1) + BigLimb(n, 2) * Base + BigLimb(n, 3) * Base * Base
    IN  IF DIsZero(a) THEN 0 ELSE IF a.s = 1 THEN -v ELSE v

\* 1/n! for n = 0..15, to 15 significant digits
ExpLiterals ==
    << <<1, 0, 1, 0>>,                \* 1/0!
       <<1, 0, 1, 0>>,                \* 1/1!
       <<1, 0, 5, -1>>,               \* 1/2!
       <<1, 166666666, 666667, -15>>, \* 1/3!
       <<1, 416666666, 666667, -16>>, \* 1/4!
       <<1, 833333333, 333333, -17>>, \* 1/5!
       <<1, 138888888, 888889, -17>>, \* 1/6!
       <<1, 198412698, 412698, -18>>, \* 1/7!
       <<1, 248015873, 15873, -19>>,  \* 1/8!
       <<1, 275573192, 239859, -20>>, \* 1/9!
       <<1, 275573192, 239859, -21>>, \* 1/10!
       <<1, 250521083, 854417, -22>>, \* 1/11!
       <<1, 208767569, 878681, -23>>, \* 1/12!
       <<1, 160590438, 368216, -24>>, \* 1/13!
       <<1, 114707455, 977297, -25>>, \* 1/14!
       <<1, 764716373, 181982, -27>> >>\* 1/15!

ExpCoeff ==
    SubSeq([i \in 1..Len(ExpLiterals) |->
               Dec(ExpLiterals[i][1], ExpLiterals[i][2], ExpLiterals[i][3],
                   ExpLiterals[i][4])], 1, Len(ExpLiterals))

\* ln 2 = ExpLn2Hi + ExpLn2Lo, the high part of 30 bits, and 1 / ln 2
ExpLn2Hi  == DFromInt(744261117, -30)
ExpLn2Lo  == Dec(1, 889313423, 888668, -24)
ExpInvLn2 == Dec(1, 1442695040, 888963, -15)

\* ExpCoeff[lo] + ExpCoeff[lo+1]*r + ... (len terms, len a power of 2), by
\* halves; pw = <<r, r^2, r^4, r^8>> and h is the index in pw of r^(len/2).
RECURSIVE ExpPoly(_, _, _, _)
ExpPoly(lo, len, h, pw) ==
    IF len = 1 THEN ExpCoeff[lo]
    ELSE DAdd(ExpPoly(lo, len \div 2, h - 1, pw),
              DMul(ExpPoly(lo + len \div 2, len \div 2, h - 1, pw), pw[h]))

\* exp(x) from the reduced argument r = x - k*ln2 and its powers
DExpSum(r, r2, r4, r8, k) == DScale(ExpPoly(1, 16, 4, <<r, r2, r4, r8>>), k)
DExpPow8(r, r2, r4, k) == DExpSum(r, r2, r4, DMul(r4, r4), k)
DExpPow4(r, r2, k) == DExpPow8(r, r2, DMul(r2, r2), k)
DExpReduced(r, k) == DExpPow4(r, DMul(r, r), k)
DExpSplit(x, kd, k) ==
    DExpReduced(DSub(DSub(x, DMul(kd, ExpLn2Hi)), DMul(kd, ExpLn2Lo)), k)
DExpBy(x, k) == DExpSplit(x, DFromInt(k, 0), k)
DExp(x) == DExpBy(x, DNearestInt(DMul(x, ExpInvLn2)))

DSquare(x) == DMul(x, x)

(***************************************************************************)
(* The static data of thermocouple_sensor.c as the source writes it: per   *)
(* type and direction the coefficient arrays (lowest degree first) and the *)
(* range table.  A decimal literal sign * (hi * 10^6 + lo) * 10^e10 is     *)
(* written <<sign, hi, lo, e10>>.                                          *)
(***************************************************************************)
TC_Coeff_R_mVToTemp_Range1 ==
    << <<1, 0, 0, -7>>,                 \* 0.0000000E+00
       <<1, 18, 891380, -5>>,           \* 1.8891380E+02
       <<-1, 93, 835290, -6>>,          \* -9.3835290E+01
       <<1, 13, 68619, -5>>,            \* 1.3068619E+02
       <<-1, 22, 703580, -5>>,          \* -2.2703580E+02
       <<1, 35, 145659, -5>>,           \* 3.5145659E+02
       <<-1, 38, 953900, -5>>,          \* -3.8953900E+02
       <<1, 28, 239471, -5>>,           \* 2.8239471E+02
       <<-1, 12, 607281, -5>>,          \* -1.2607281E+02
       <<1, 31, 353611, -6>>,           \* 3.1353611E+01
       <<-1, 33, 187769, -7>> >>        \* -3.3187769E+00

TC_Coeff_R_mVToTemp_Range2 ==
    << <<1, 1334, 584505, -8>>,         \* 1.334584505E+01
       <<1, 1472, 644573, -7>>,         \* 1.472644573E+02
       <<-1, 1844, 24844, -8>>,         \* -1.844024844E+01
       <<1, 4031, 129726, -9>>,         \* 4.031129726E+00
       <<-1, 6249, 428360, -10>>,       \* -6.249428360E-01
       <<1, 6468, 412046, -11>>,        \* 6.468412046E-02
       <<-1, 4458, 750426, -12>>,       \* -4.458750426E-03
       <<1, 1994, 710149, -13>>,        \* 1.994710149E-04
       <<-1, 5313, 401790, -15>>,       \* -5.313401790E-06
       <<1, 6481, 976217, -17>>,        \* 6.481976217E-08
       <<1, 0, 0, -9>> >>               \* 0.000000000E+00

TC_Coeff_R_mVToTemp_Range3 ==
    << <<-1, 8199, 599416, -8>>,        \* -8.199599416E+01
       <<1, 1553, 962042, -7>>,         \* 1.553962042E+02
       <<-1, 8342, 197663, -9>>,        \* -8.342197663E+00
       <<1, 4279, 433549, -10>>,        \* 4.279433549E-01
       <<-1, 1191, 577910, -11>>,       \* -1.191577910E-02
       <<1, 1492, 290091, -13>>,        \* 1.492290091E-04
       <<1, 0, 0, -9>>,                 \* 0.000000000E+00
       <<1, 0, 0, -9>>,                 \* 0.000000000E+00
       <<1, 0, 0, -9>>,                 \* 0.000000000E+00
       <<1, 0, 0, -9>>,                 \* 0.000000000E+00
       <<1, 0, 0, -9>> >>               \* 0.000000000E+00

TC_Coeff_R_mVToTemp_Range4 ==
    << <<1, 3406, 177836, -5>>,         \* 3.406177836E+04
       <<-1, 7023, 729171, -6>>,        \* -7.023729171E+03
       <<1, 5582, 903813, -7>>,         \* 5.582903813E+02
       <<-1, 1952, 394635, -8>>,        \* -1.952394635E+01
       <<1, 2560, 740231, -10>>,        \* 2.560740231E-01
       <<1, 0, 0, -9>>,                 \* 0.000000000E+00
       <<1, 0, 0, -9>>,                 \* 0.000000000E+00
       <<1, 0, 0, -9>>,                 \* 0.000000000E+00
       <<1, 0, 0, -9>>,                 \* 0.000000000E+00
       <<1, 0, 0, -9>>,                 \* 0.000000000E+00
       <<1, 0, 0, -9>> >>               \* 0.000000000E+00

TC_R_mVToTemp ==
    << [min |-> <<-1, 0, 228, -3>>, max |-> <<1, 0, 1923, -3>>,  \* -0.228, 1.923
        poly |-> [pCoefficients |-> "TC_Coeff_R_mVToTemp_Range1",
                 length |-> Len(TC_Coeff_R_mVToTemp_Range1)]],
       [min |-> <<1, 0, 1923, -3>>, max |-> <<1, 0, 11361, -3>>,  \* 1.923, 11.361
        poly |-> [pCoefficients |-> "TC_Coeff_R_mVToTemp_Range2",
                 length |-> Len(TC_Coeff_R_mVToTemp_Range2)]],
       [min |-> <<1, 0, 11361, -3>>, max |-> <<1, 0, 19739, -3>>,  \* 11.361, 19.739
        poly |-> [pCoefficients |-> "TC_Coeff_R_mVToTemp_Range3",
                 length |-> Len(TC_Coeff_R_mVToTemp_Range3)]],
       [min |-> <<1, 0, 19739, -3>>, max |-> <<1, 0, 21105, -3>>,  \* 19.739, 21.105
        poly |-> [pCoefficients |-> "TC_Coeff_R_mVToTemp_Range4",
                 length |-> Len(TC_Coeff_R_mVToTemp_Range4)]] >>

TC_Coeff_R_TempToMV_Range1 ==
    << <<1, 0, 0, -12>>,                \* 0.000000000000E+00
       <<1, 528961, 729765, -14>>,      \* 0.528961729765E-02
       <<1, 139166, 589782, -16>>,      \* 0.139166589782E-04
       <<-1, 238855, 693017, -19>>,     \* -0.238855693017E-07
       <<1, 356916, 1063, -22>>,        \* 0.356916001063E-10
       <<-1, 462347, 666298, -25>>,     \* -0.462347666298E-13
       <<1, 500777, 441034, -28>>,      \* 0.500777441034E-16
       <<-1, 373105, 886191, -31>>,     \* -0.373105886191E-19
       <<1, 157716, 482367, -34>>,      \* 0.157716482367E-22
       <<-1, 281038, 625251, -38>> >>   \* -0.281038625251E-26

TC_Coeff_R_TempToMV_Range2 ==
    << <<1, 295157, 925316, -11>>,      \* 0.295157925316E+01
       <<-1, 252061, 251332, -14>>,     \* -0.252061251332E-02
       <<1, 159564, 501865, -16>>,      \* 0.159564501865E-04
       <<-1, 764085, 947576, -20>>,     \* -0.764085947576E-08
       <<1, 205305, 291024, -23>>,      \* 0.205305291024E-11
       <<-1, 293359, 668173, -27>> >>   \* -0.293359668173E-15

TC_Coeff_R_TempToMV_Range3 ==
    << <<1, 152232, 118209, -9>>,       \* 0.152232118209E+03
       <<-1, 268819, 888545, -12>>,     \* -0.268819888545E+00
       <<1, 171280, 280471, -15>>,      \* 0.171280280471E-03
       <<-1, 345895, 706453, -19>>,     \* -0.345895706453E-07
       <<-1, 934633, 971046, -26>> >>   \* -0.934633971046E-14

TC_R_TempToMV ==
    << [min |-> <<-1, 0, 505, -1>>, max |-> <<1, 0, 106418, -2>>,  \* -50.5, 1064.18
        poly |-> [pCoefficients |-> "TC_Coeff_R_TempToMV_Range1",
                 length |-> Len(TC_Coeff_R_TempToMV_Range1)]],
       [min |-> <<1, 0, 106418, -2>>, max |-> <<1, 0, 16645, -1>>,  \* 1064.18, 1664.5
        poly |-> [pCoefficients |-> "TC_Coeff_R_TempToMV_Range2",
                 length |-> Len(TC_Coeff_R_TempToMV_Range2)]],
       [min |-> <<1, 0, 16645, -1>>, max |-> <<1, 0, 17685, -1>>,  \* 1664.5, 1768.5
        poly |-> [pCoefficients |-> "TC_Coeff_R_TempToMV_Range3",
                 length |-> Len(TC_Coeff_R_TempToMV_Range3)]] >>

TC_Coeff_S_mVToTemp_Range1 ==
    << <<1, 0, 0, -8>>,                 \* 0.00000000E+00
       <<1, 184, 949460, -6>>,          \* 1.84949460E+02
       <<-1, 800, 504062, -7>>,         \* -8.00504062E+01
       <<1, 102, 237430, -6>>,          \* 1.02237430E+02
       <<-1, 152, 248592, -6>>,         \* -1.52248592E+02
       <<1, 188, 821343, -6>>,          \* 1.88821343E+02
       <<-1, 159, 85941, -6>>,          \* -1.59085941E+02
       <<1, 823, 27880, -7>>,           \* 8.23027880E+01
       <<-1, 234, 181944, -7>>,         \* -2.34181944E+01
       <<1, 279, 786260, -8>> >>        \* 2.79786260E+00

TC_Coeff_S_mVToTemp_Range2 ==
    << <<1, 1291, 507177, -8>>,         \* 1.291507177E+01
       <<1, 1466, 298863, -7>>,         \* 1.466298863E+02
       <<-1, 1534, 713402, -8>>,        \* -1.534713402E+01
       <<1, 3145, 945973, -9>>,         \* 3.145945973E+00
       <<-1, 4163, 257839, -10>>,       \* -4.163257839E-01
       <<1, 3187, 963771, -11>>,        \* 3.187963771E-02
       <<-1, 1291, 637500, -12>>,       \* -1.291637500E-03
       <<1, 2183, 475087, -14>>,        \* 2.183475087E-05
       <<-1, 1447, 379511, -16>>,       \* -1.447379511E-07
       <<1, 8211, 272125, -18>> >>      \* 8.211272125E-09

TC_Coeff_S_mVToTemp_Range3 ==
    << <<-1, 8087, 801117, -8>>,        \* -8.087801117E+01
       <<1, 1621, 573104, -7>>,         \* 1.621573104E+02
       <<-1, 8536, 869453, -9>>,        \* -8.536869453E+00
       <<1, 4719, 686976, -10>>,        \* 4.719686976E-01
       <<-1, 1441, 693666, -11>>,       \* -1.441693666E-02
       <<1, 2081, 618890, -13>>,        \* 2.081618890E-04
       <<1, 0, 0, -9>>,                 \* 0.000000000E+00
       <<1, 0, 0, -9>>,                 \* 0.000000000E+00
       <<1, 0, 0, -9>>,                 \* 0.000000000E+00
       <<1, 0, 0, -9>> >>               \* 0.000000000E+00

TC_Coeff_S_mVToTemp_Range4 ==
    << <<1, 5333, 875126, -5>>,         \* 5.333875126E+04
       <<-1, 1235, 892298, -5>>,        \* -1.235892298E+04
       <<1, 1092, 657613, -6>>,         \* 1.092657613E+03
       <<-1, 4265, 693686, -8>>,        \* -4.265693686E+01
       <<1, 6247, 205420, -10>>,        \* 6.247205420E-01
       <<1, 0, 0, -9>>,                 \* 0.000000000E+00
       <<1, 0, 0, -9>>,                 \* 0.000000000E+00
       <<1, 0, 0, -9>>,                 \* 0.000000000E+00
       <<1, 0, 0, -9>>,                 \* 0.000000000E+00
       <<1, 0, 0, -9>> >>               \* 0.000000000E+00

TC_S_mVToTemp ==
    << [min |-> <<-1, 0, 237, -3>>, max |-> <<1, 0, 1874, -3>>,  \* -0.237, 1.874
        poly |-> [pCoefficients |-> "TC_Coeff_S_mVToTemp_Range1",
                 length |-> Len(TC_Coeff_S_mVToTemp_Range1)]],
       [min |-> <<1, 0, 1874, -3>>, max |-> <<1, 0, 10332, -3>>,  \* 1.874, 10.332
        poly |-> [pCoefficients |-> "TC_Coeff_S_mVToTemp_Range2",
                 length |-> Len(TC_Coeff_S_mVToTemp_Range2)]],
       [min |-> <<1, 0, 10332, -3>>, max |-> <<1, 0, 17536, -3>>,  \* 10.332, 17.536
        poly |-> [pCoefficients |-> "TC_Coeff_S_mVToTemp_Range3",
                 length |-> Len(TC_Coeff_S_mVToTemp_Range3)]],
       [min |-> <<1, 0, 17536, -3>>, max |-> <<1, 0, 18697, -3>>,  \* 17.536, 18.697
        poly |-> [pCoefficients |-> "TC_Coeff_S_mVToTemp_Range4",
                 length |-> Len(TC_Coeff_S_mVToTemp_Range4)]] >>

TC_Coeff_S_TempToMV_Range1 ==
    << <<1, 0, 0, -12>>,                \* 0.000000000000E+00
       <<1, 540313, 308631, -14>>,      \* 0.540313308631E-02
       <<1, 125934, 289740, -16>>,      \* 0.125934289740E-04
       <<-1, 232477, 968689, -19>>,     \* -0.232477968689E-07
       <<1, 322028, 823036, -22>>,      \* 0.322028823036E-10
       <<-1, 331465, 196389, -25>>,     \* -0.331465196389E-13
       <<1, 255744, 251786, -28>>,      \* 0.255744251786E-16
       <<-1, 125068, 871393, -31>>,     \* -0.125068871393E-19
       <<1, 271443, 176145, -35>> >>    \* 0.271443176145E-23

TC_Coeff_S_TempToMV_Range2 ==
    << <<1, 132900, 444085, -11>>,      \* 0.132900444085E+01
       <<1, 334509, 311344, -14>>,      \* 0.334509311344E-02
       <<1, 654805, 192818, -17>>,      \* 0.654805192818E-05
       <<-1, 164856, 259209, -20>>,     \* -0.164856259209E-08
       <<1, 129989, 605174, -25>> >>    \* 0.129989605174E-13

TC_Coeff_S_TempToMV_Range3 ==
    << <<1, 146628, 232636, -9>>,       \* 0.146628232636E+03
       <<-1, 258430, 516752, -12>>,     \* -0.258430516752E+00
       <<1, 163693, 574641, -15>>,      \* 0.163693574641E-03
       <<-1, 330439, 46987, -19>>,      \* -0.330439046987E-07
       <<-1, 943223, 690612, -26>> >>   \* -0.943223690612E-14

TC_S_TempToMV ==
    << [min |-> <<-1, 0, 505, -1>>, max |-> <<1, 0, 106418, -2>>,  \* -50.5, 1064.18
        poly |-> [pCoefficients |-> "TC_Coeff_S_TempToMV_Range1",
                 length |-> Len(TC_Coeff_S_TempToMV_Range1)]],
       [min |-> <<1, 0, 106418, -2>>, max |-> <<1, 0, 16645, -1>>,  \* 1064.18, 1664.5
        poly |-> [pCoefficients |-> "TC_Coeff_S_TempToMV_Range2",
                 length |-> Len(TC_Coeff_S_TempToMV_Range2)]],
       [min |-> <<1, 0, 16645, -1>>, max |-> <<1, 0, 17685, -1>>,  \* 1664.5, 1768.5
        poly |-> [pCoefficients |-> "TC_Coeff_S_TempToMV_Range3",
                 length |-> Len(TC_Coeff_S_TempToMV_Range3)]] >>

TC_Coeff_B_mVToTemp_Range1 ==
    << <<1, 98, 423321, -6>>,           \* 9.8423321E+01
       <<1, 69, 971500, -5>>,           \* 6.9971500E+02
       <<-1, 84, 765304, -5>>,          \* -8.4765304E+02
       <<1, 10, 52644, -4>>,            \* 1.0052644E+03
       <<-1, 83, 345952, -5>>,          \* -8.3345952E+02
       <<1, 45, 508542, -5>>,           \* 4.5508542E+02
       <<-1, 15, 523037, -5>>,          \* -1.5523037E+02
       <<1, 29, 886750, -6>>,           \* 2.9886750E+01
       <<-1, 24, 742860, -7>> >>        \* -2.4742860E+00

TC_Coeff_B_mVToTemp_Range2 ==
    << <<1, 21, 315071, -5>>,           \* 2.1315071E+02
       <<1, 28, 510504, -5>>,           \* 2.8510504E+02
       <<-1, 52, 742887, -6>>,          \* -5.2742887E+01
       <<1, 99, 160804, -7>>,           \* 9.9160804E+00
       <<-1, 12, 965303, -7>>,          \* -1.2965303E+00
       <<1, 11, 195870, -8>>,           \* 1.1195870E-01
       <<-1, 60, 625199, -10>>,         \* -6.0625199E-03
       <<1, 18, 661696, -11>>,          \* 1.8661696E-04
       <<-1, 24, 878585, -13>> >>       \* -2.4878585E-06

TC_B_mVToTemp ==
    << [min |-> <<1, 0, 292, -3>>, max |-> <<1, 0, 2431, -3>>,  \* 0.292, 2.431
        poly |-> [pCoefficients |-> "TC_Coeff_B_mVToTemp_Range1",
                 length |-> Len(TC_Coeff_B_mVToTemp_Range1)]],
       [min |-> <<1, 0, 2431, -3>>, max |-> <<1, 0, 13825, -3>>,  \* 2.431, 13.825
        poly |-> [pCoefficients |-> "TC_Coeff_B_mVToTemp_Range2",
                 length |-> Len(TC_Coeff_B_mVToTemp_Range2)]] >>

TC_Coeff_B_TempToMV_Range1 ==
    << <<1, 0, 0, -12>>,                \* 0.000000000000E+00
       <<-1, 246508, 183460, -15>>,     \* -0.246508183460E-03
       <<1, 590404, 211710, -17>>,      \* 0.590404211710E-05
       <<-1, 132579, 316360, -20>>,     \* -0.132579316360E-08
       <<1, 156682, 919010, -23>>,      \* 0.156682919010E-11
       <<-1, 169445, 292400, -26>>,     \* -0.169445292400E-14
       <<1, 629903, 470940, -30>> >>    \* 0.629903470940E-18

TC_Coeff_B_TempToMV_Range2 ==
    << <<-1, 389381, 686210, -11>>,     \* -0.389381686210E+01
       <<1, 285717, 474700, -13>>,      \* 0.285717474700E-01
       <<-1, 848851, 47850, -16>>,      \* -0.848851047850E-04
       <<1, 157852, 801640, -18>>,      \* 0.157852801640E-06
       <<-1, 168353, 448640, -21>>,     \* -0.168353448640E-09
       <<1, 111097, 940130, -24>>,      \* 0.111097940130E-12
       <<-1, 445154, 310330, -28>>,     \* -0.445154310330E-16
       <<1, 989756, 408210, -32>>,      \* 0.989756408210E-20
       <<-1, 937913, 302890, -36>> >>   \* -0.937913302890E-24

\* Variant of TC_B_TempToMV: the second range starts inside the first
TC_B_TempToMV_Overlap ==
    << [min |-> <<-1, 0, 5, -1>>, max |-> <<1, 0, 630615, -3>>,
        poly |-> [pCoefficients |-> "TC_Coeff_B_TempToMV_Range1",
                 length |-> Len(TC_Coeff_B_TempToMV_Range1)]],
       [min |-> <<1, 0, 630, 0>>, max |-> <<1, 0, 18205, -1>>,
        poly |-> [pCoefficients |-> "TC_Coeff_B_TempToMV_Range2",
                 length |-> Len(TC_Coeff_B_TempToMV_Range2)]] >>

TC_B_TempToMV ==
    << [min |-> <<-1, 0, 5, -1>>, max |-> <<1, 0, 630615, -3>>,  \* -0.5, 630.615
        poly |-> [pCoefficients |-> "TC_Coeff_B_TempToMV_Range1",
                 length |-> Len(TC_Coeff_B_TempToMV_Range1)]],
       [min |-> <<1, 0, 630615, -3>>, max |-> <<1, 0, 18205, -1>>,  \* 630.615, 1820.5
        poly |-> [pCoefficients |-> "TC_Coeff_B_TempToMV_Range2",
                 length |-> Len(TC_Coeff_B_TempToMV_Range2)]] >>

TC_Coeff_J_mVToTemp_Range1 ==
    << <<1, 0, 0, -7>>,                 \* 0.0000000E+00
       <<1, 19, 528268, -6>>,           \* 1.9528268E+01
       <<-1, 12, 286185, -7>>,          \* -1.2286185E+00
       <<-1, 10, 752178, -7>>,          \* -1.0752178E+00
       <<-1, 59, 86933, -8>>,           \* -5.9086933E-01
       <<-1, 17, 256713, -8>>,          \* -1.7256713E-01
       <<-1, 28, 131513, -9>>,          \* -2.8131513E-02
       <<-1, 23, 963370, -10>>,         \* -2.3963370E-03
       <<-1, 83, 823321, -12>> >>       \* -8.3823321E-05

TC_Coeff_J_mVToTemp_Range2 ==
    << <<1, 0, 0, -6>>,                 \* 0.000000E+00
       <<1, 1, 978425, -5>>,            \* 1.978425E+01
       <<-1, 2, 1204, -7>>,             \* -2.001204E-01
       <<1, 1, 36969, -8>>,             \* 1.036969E-02
       <<-1, 2, 549687, -10>>,          \* -2.549687E-04
       <<1, 3, 585153, -12>>,           \* 3.585153E-06
       <<-1, 5, 344285, -14>>,          \* -5.344285E-08
       <<1, 5, 99890, -16>>,            \* 5.099890E-10
       <<1, 0, 0, -6>> >>               \* 0.000000E+00

TC_Coeff_J_mVToTemp_Range3 ==
    << <<-1, 311, 358187, -5>>,         \* -3.11358187E+03
       <<1, 300, 543684, -6>>,          \* 3.00543684E+02
       <<-1, 994, 773230, -8>>,         \* -9.94773230E+00
       <<1, 170, 276630, -9>>,          \* 1.70276630E-01
       <<-1, 143, 33468, -11>>,         \* -1.43033468E-03
       <<1, 473, 886084, -14>>,         \* 4.73886084E-06
       <<1, 0, 0, -8>>,                 \* 0.00000000E+00
       <<1, 0, 0, -8>>,                 \* 0.00000000E+00
       <<1, 0, 0, -8>> >>               \* 0.00000000E+00

TC_J_mVToTemp ==
    << [min |-> <<-1, 0, 81, -1>>, max |-> <<1, 0, 0, -1>>,  \* -8.1, 0.0
        poly |-> [pCoefficients |-> "TC_Coeff_J_mVToTemp_Range1",
                 length |-> Len(TC_Coeff_J_mVToTemp_Range1)]],
       [min |-> <<1, 0, 0, -1>>, max |-> <<1, 0, 42914, -3>>,  \* 0.0, 42.914
        poly |-> [pCoefficients |-> "TC_Coeff_J_mVToTemp_Range2",
                 length |-> Len(TC_Coeff_J_mVToTemp_Range2)]],
       [min |-> <<1, 0, 42914, -3>>, max |-> <<1, 0, 6958, -2>>,  \* 42.914, 69.58
        poly |-> [pCoefficients |-> "TC_Coeff_J_mVToTemp_Range3",
                 length |-> Len(TC_Coeff_J_mVToTemp_Range3)]] >>

TC_Coeff_J_TempToMV_Range1 ==
    << <<1, 0, 0, -12>>,                \* 0.000000000000E+00
       <<1, 503811, 878150, -13>>,      \* 0.503811878150E-01
       <<1, 304758, 369300, -16>>,      \* 0.304758369300E-04
       <<-1, 856810, 657200, -19>>,     \* -0.856810657200E-07
       <<1, 132281, 952950, -21>>,      \* 0.132281952950E-09
       <<-1, 170529, 583370, -24>>,     \* -0.170529583370E-12
       <<1, 209480, 906970, -27>>,      \* 0.209480906970E-15
       <<-1, 125383, 953360, -30>>,     \* -0.125383953360E-18
       <<1, 156317, 256970, -34>> >>    \* 0.156317256970E-22

TC_Coeff_J_TempToMV_Range2 ==
    << <<1, 296456, 256810, -9>>,       \* 0.296456256810E+03
       <<-1, 149761, 277860, -11>>,     \* -0.149761277860E+01
       <<1, 317871, 39240, -14>>,       \* 0.317871039240E-02
       <<-1, 318476, 867010, -17>>,     \* -0.318476867010E-05
       <<1, 157208, 190040, -20>>,      \* 0.157208190040E-08
       <<-1, 306913, 690560, -24>> >>   \* -0.306913690560E-12

TC_J_TempToMV ==
    << [min |-> <<-1, 0, 2105, -1>>, max |-> <<1, 0, 7600, -1>>,  \* -210.5, 760.0
        poly |-> [pCoefficients |-> "TC_Coeff_J_TempToMV_Range1",
                 length |-> Len(TC_Coeff_J_TempToMV_Range1)]],
       [min |-> <<1, 0, 7600, -1>>, max |-> <<1, 0, 12005, -1>>,  \* 760.0, 1200.5
        poly |-> [pCoefficients |-> "TC_Coeff_J_TempToMV_Range2",
                 length |-> Len(TC_Coeff_J_TempToMV_Range2)]] >>

TC_Coeff_T_mVToTemp_Range1 ==
    << <<1, 0, 0, -7>>,                 \* 0.0000000E+00
       <<1, 25, 949192, -6>>,           \* 2.5949192E+01
       <<-1, 21, 316967, -8>>,          \* -2.1316967E-01
       <<1, 79, 18692, -8>>,            \* 7.9018692E-01
       <<1, 42, 527777, -8>>,           \* 4.2527777E-01
       <<1, 13, 304473, -8>>,           \* 1.3304473E-01
       <<1, 20, 241446, -9>>,           \* 2.0241446E-02
       <<1, 12, 668171, -10>> >>        \* 1.2668171E-03

TC_Coeff_T_mVToTemp_Range2 ==
    << <<1, 0, 0, -6>>,                 \* 0.000000E+00
       <<1, 2, 592800, -5>>,            \* 2.592800E+01
       <<-1, 7, 602961, -7>>,           \* -7.602961E-01
       <<1, 4, 637791, -8>>,            \* 4.637791E-02
       <<-1, 2, 165394, -9>>,           \* -2.165394E-03
       <<1, 6, 48144, -11>>,            \* 6.048144E-05
       <<-1, 7, 293422, -13>>,          \* -7.293422E-07
       <<1, 0, 0, -6>> >>               \* 0.000000E+00

TC_T_mVToTemp ==
    << [min |-> <<-1, 0, 561, -2>>, max |-> <<1, 0, 0, -1>>,  \* -5.61, 0.0
        poly |-> [pCoefficients |-> "TC_Coeff_T_mVToTemp_Range1",
                 length |-> Len(TC_Coeff_T_mVToTemp_Range1)]],
       [min |-> <<1, 0, 0, -1>>, max |-> <<1, 0, 2088, -2>>,  \* 0.0, 20.88
        poly |-> [pCoefficients |-> "TC_Coeff_T_mVToTemp_Range2",
                 length |-> Len(TC_Coeff_T_mVToTemp_Range2)]] >>

TC_Coeff_T_TempToMV_Range1 ==
    << <<1, 0, 0, -12>>,                \* 0.000000000000E+00
       <<1, 387481, 63640, -13>>,       \* 0.387481063640E-01
       <<1, 441944, 343470, -16>>,      \* 0.441944343470E-04
       <<1, 118443, 231050, -18>>,      \* 0.118443231050E-06
       <<1, 200329, 735540, -19>>,      \* 0.200329735540E-07
       <<1, 901380, 195590, -21>>,      \* 0.901380195590E-09
       <<1, 226511, 565930, -22>>,      \* 0.226511565930E-10
       <<1, 360711, 542050, -24>>,      \* 0.360711542050E-12
       <<1, 384939, 398830, -26>>,      \* 0.384939398830E-14
       <<1, 282135, 219250, -28>>,      \* 0.282135219250E-16
       <<1, 142515, 947790, -30>>,      \* 0.142515947790E-18
       <<1, 487686, 622860, -33>>,      \* 0.487686622860E-21
       <<1, 107955, 392700, -35>>,      \* 0.107955392700E-23
       <<1, 139450, 270620, -38>>,      \* 0.139450270620E-26
       <<1, 797951, 539270, -42>> >>    \* 0.797951539270E-30

TC_Coeff_T_TempToMV_Range2 ==
    << <<1, 0, 0, -12>>,                \* 0.000000000000E+00
       <<1, 387481, 63640, -13>>,       \* 0.387481063640E-01
       <<1, 332922, 278800, -16>>,      \* 0.332922278800E-04
       <<1, 206182, 434040, -18>>,      \* 0.206182434040E-06
       <<-1, 218822, 568460, -20>>,     \* -0.218822568460E-08
       <<1, 109968, 809280, -22>>,      \* 0.109968809280E-10
       <<-1, 308157, 587720, -25>>,     \* -0.308157587720E-13
       <<1, 454791, 352900, -28>>,      \* 0.454791352900E-16
       <<-1, 275129, 16730, -31>> >>    \* -0.275129016730E-19

TC_T_TempToMV ==
    << [min |-> <<-1, 0, 2705, -1>>, max |-> <<1, 0, 0, -1>>,  \* -270.5, 0.0
        poly |-> [pCoefficients |-> "TC_Coeff_T_TempToMV_Range1",
                 length |-> Len(TC_Coeff_T_TempToMV_Range1)]],
       [min |-> <<1, 0, 0, -1>>, max |-> <<1, 0, 4005, -1>>,  \* 0.0, 400.5
        poly |-> [pCoefficients |-> "TC_Coeff_T_TempToMV_Range2",
                 length |-> Len(TC_Coeff_T_TempToMV_Range2)]] >>

TC_Coeff_E_mVToTemp_Range1 ==
    << <<1, 0, 0, -7>>,                 \* 0.0000000E+00
       <<1, 16, 977288, -6>>,           \* 1.6977288E+01
       <<-1, 43, 514970, -8>>,          \* -4.3514970E-01
       <<-1, 15, 859697, -8>>,          \* -1.5859697E-01
       <<-1, 92, 502871, -9>>,          \* -9.2502871E-02
       <<-1, 26, 84314, -9>>,           \* -2.6084314E-02
       <<-1, 41, 360199, -10>>,         \* -4.1360199E-03
       <<-1, 34, 34030, -11>>,          \* -3.4034030E-04
       <<-1, 11, 564890, -12>>,         \* -1.1564890E-05
       <<1, 0, 0, -7>> >>               \* 0.0000000E+00

TC_Coeff_E_mVToTemp_Range2 ==
    << <<1, 0, 0, -7>>,                 \* 0.0000000E+00
       <<1, 17, 57035, -6>>,            \* 1.7057035E+01
       <<-1, 23, 301759, -8>>,          \* -2.3301759E-01
       <<1, 65, 435585, -10>>,          \* 6.5435585E-03
       <<-1, 73, 562749, -12>>,         \* -7.3562749E-05
       <<-1, 17, 896001, -13>>,         \* -1.7896001E-06
       <<1, 84, 36165, -15>>,           \* 8.4036165E-08
       <<-1, 13, 735879, -16>>,         \* -1.3735879E-09
       <<1, 10, 629823, -18>>,          \* 1.0629823E-11
       <<-1, 32, 447087, -21>> >>       \* -3.2447087E-14

TC_E_mVToTemp ==
    << [min |-> <<-1, 0, 884, -2>>, max |-> <<1, 0, 0, -1>>,  \* -8.84, 0.0
        poly |-> [pCoefficients |-> "TC_Coeff_E_mVToTemp_Range1",
                 length |-> Len(TC_Coeff_E_mVToTemp_Range1)]],
       [min |-> <<1, 0, 0, -1>>, max |-> <<1, 0, 7638, -2>>,  \* 0.0, 76.38
        poly |-> [pCoefficients |-> "TC_Coeff_E_mVToTemp_Range2",
                 length |-> Len(TC_Coeff_E_mVToTemp_Range2)]] >>

TC_Coeff_E_TempToMV_Range1 ==
    << <<1, 0, 0, -12>>,                \* 0.000000000000E+00
       <<1, 586655, 87080, -13>>,       \* 0.586655087080E-01
       <<1, 454109, 771240, -16>>,      \* 0.454109771240E-04
       <<-1, 779980, 486860, -18>>,     \* -0.779980486860E-06
       <<-1, 258001, 608430, -19>>,     \* -0.258001608430E-07
       <<-1, 594525, 830570, -21>>,     \* -0.594525830570E-09
       <<-1, 932140, 586670, -23>>,     \* -0.932140586670E-11
       <<-1, 102876, 55340, -24>>,      \* -0.102876055340E-12
       <<-1, 803701, 236210, -27>>,     \* -0.803701236210E-15
       <<-1, 439794, 973910, -29>>,     \* -0.439794973910E-17
       <<-1, 164147, 763550, -31>>,     \* -0.164147763550E-19
       <<-1, 396736, 195160, -34>>,     \* -0.396736195160E-22
       <<-1, 558273, 287210, -37>>,     \* -0.558273287210E-25
       <<-1, 346578, 420130, -40>> >>   \* -0.346578420130E-28

TC_Coeff_E_TempToMV_Range2 ==
    << <<1, 0, 0, -12>>,                \* 0.000000000000E+00
       <<1, 586655, 87100, -13>>,       \* 0.586655087100E-01
       <<1, 450322, 755820, -16>>,      \* 0.450322755820E-04
       <<1, 289084, 72120, -19>>,       \* 0.289084072120E-07
       <<-1, 330568, 966520, -21>>,     \* -0.330568966520E-09
       <<1, 650244, 32700, -24>>,       \* 0.650244032700E-12
       <<-1, 191974, 955040, -27>>,     \* -0.191974955040E-15
       <<-1, 125366, 4970, -29>>,       \* -0.125366004970E-17
       <<1, 214892, 175690, -32>>,      \* 0.214892175690E-20
       <<-1, 143880, 417820, -35>>,     \* -0.143880417820E-23
       <<1, 359608, 994810, -39>> >>    \* 0.359608994810E-27

TC_E_TempToMV ==
    << [min |-> <<-1, 0, 2705, -1>>, max |-> <<1, 0, 0, -1>>,  \* -270.5, 0.0
        poly |-> [pCoefficients |-> "TC_Coeff_E_TempToMV_Range1",
                 length |-> Len(TC_Coeff_E_TempToMV_Range1)]],
       [min |-> <<1, 0, 0, -1>>, max |-> <<1, 0, 10005, -1>>,  \* 0.0, 1000.5
        poly |-> [pCoefficients |-> "TC_Coeff_E_TempToMV_Range2",
                 length |-> Len(TC_Coeff_E_TempToMV_Range2)]] >>

TC_Coeff_K_mVToTemp_Range1 ==
    << <<1, 0, 0, -7>>,                 \* 0.0000000E+00
       <<1, 25, 173462, -6>>,           \* 2.5173462E+01
       <<-1, 11, 662878, -7>>,          \* -1.1662878E+00
       <<-1, 10, 833638, -7>>,          \* -1.0833638E+00
       <<-1, 89, 773540, -8>>,          \* -8.9773540E-01
       <<-1, 37, 342377, -8>>,          \* -3.7342377E-01
       <<-1, 86, 632643, -9>>,          \* -8.6632643E-02
       <<-1, 10, 450598, -9>>,          \* -1.0450598E-02
       <<-1, 51, 920577, -11>>,         \* -5.1920577E-04
       <<1, 0, 0, -7>> >>               \* 0.0000000E+00

TC_Coeff_K_mVToTemp_Range2 ==
    << <<1, 0, 0, -6>>,                 \* 0.000000E+00
       <<1, 2, 508355, -5>>,            \* 2.508355E+01
       <<1, 7, 860106, -8>>,            \* 7.860106E-02
       <<-1, 2, 503131, -7>>,           \* -2.503131E-01
       <<1, 8, 315270, -8>>,            \* 8.315270E-02
       <<-1, 1, 228034, -8>>,           \* -1.228034E-02
       <<1, 9, 804036, -10>>,           \* 9.804036E-04
       <<-1, 4, 413030, -11>>,          \* -4.413030E-05
       <<1, 1, 57734, -12>>,            \* 1.057734E-06
       <<-1, 1, 52755, -14>> >>         \* -1.052755E-08

TC_Coeff_K_mVToTemp_Range3 ==
    << <<-1, 1, 318058, -4>>,           \* -1.318058E+02
       <<1, 4, 830222, -5>>,            \* 4.830222E+01
       <<-1, 1, 646031, -6>>,           \* -1.646031E+00
       <<1, 5, 464731, -8>>,            \* 5.464731E-02
       <<-1, 9, 650715, -10>>,          \* -9.650715E-04
       <<1, 8, 802193, -12>>,           \* 8.802193E-06
       <<-1, 3, 110810, -14>>,          \* -3.110810E-08
       <<1, 0, 0, -6>>,                 \* 0.000000E+00
       <<1, 0, 0, -6>>,                 \* 0.000000E+00
       <<1, 0, 0, -6>> >>               \* 0.000000E+00

TC_K_mVToTemp ==
    << [min |-> <<-1, 0, 5895, -3>>, max |-> <<1, 0, 0, -1>>,  \* -5.895, 0.0
        poly |-> [pCoefficients |-> "TC_Coeff_K_mVToTemp_Range1",
                 length |-> Len(TC_Coeff_K_mVToTemp_Range1)]],
       [min |-> <<1, 0, 0, -1>>, max |-> <<1, 0, 20644, -3>>,  \* 0.0, 20.644
        poly |-> [pCoefficients |-> "TC_Coeff_K_mVToTemp_Range2",
                 length |-> Len(TC_Coeff_K_mVToTemp_Range2)]],
       [min |-> <<1, 0, 20644, -3>>, max |-> <<1, 0, 52425, -3>>,  \* 20.644, 52.425
        poly |-> [pCoefficients |-> "TC_Coeff_K_mVToTemp_Range3",
                 length |-> Len(TC_Coeff_K_mVToTemp_Range3)]] >>

TC_Coeff_K_TempToMV_A0 == <<1, 118597, 600000, -12>>  \* 0.118597600000E+00

TC_Coeff_K_TempToMV_A1 == <<-1, 118343, 200000, -15>>  \* -0.118343200000E-03

TC_Coeff_K_TempToMV_A2 == <<1, 126968, 600000, -9>>  \* 0.126968600000E+03

TC_Coeff_K_TempToMV_Range1 ==
    << <<1, 0, 0, -12>>,                \* 0.000000000000E+00
       <<1, 394501, 280250, -13>>,      \* 0.394501280250E-01
       <<1, 236223, 735980, -16>>,      \* 0.236223735980E-04
       <<-1, 328589, 67840, -18>>,      \* -0.328589067840E-06
       <<-1, 499048, 287770, -20>>,     \* -0.499048287770E-08
       <<-1, 675090, 591730, -22>>,     \* -0.675090591730E-10
       <<-1, 574103, 274280, -24>>,     \* -0.574103274280E-12
       <<-1, 310888, 728940, -26>>,     \* -0.310888728940E-14
       <<-1, 104516, 93650, -28>>,      \* -0.104516093650E-16
       <<-1, 198892, 668780, -31>>,     \* -0.198892668780E-19
       <<-1, 163226, 974860, -34>> >>   \* -0.163226974860E-22

TC_Coeff_K_TempToMV_Range2 ==
    << <<-1, 176004, 136860, -13>>,     \* -0.176004136860E-01
       <<1, 389212, 49750, -13>>,       \* 0.389212049750E-01
       <<1, 185587, 700320, -16>>,      \* 0.185587700320E-04
       <<-1, 994575, 928740, -19>>,     \* -0.994575928740E-07
       <<1, 318409, 457190, -21>>,      \* 0.318409457190E-09
       <<-1, 560728, 448890, -24>>,     \* -0.560728448890E-12
       <<1, 560750, 590590, -27>>,      \* 0.560750590590E-15
       <<-1, 320207, 200030, -30>>,     \* -0.320207200030E-18
       <<1, 971511, 471520, -34>>,      \* 0.971511471520E-22
       <<-1, 121047, 212750, -37>> >>   \* -0.121047212750E-25

TC_Coeff_N_mVToTemp_Range1 ==
    << <<1, 0, 0, -7>>,                 \* 0.0000000E+00
       <<1, 38, 436847, -6>>,           \* 3.8436847E+01
       <<1, 11, 10485, -7>>,            \* 1.1010485E+00
       <<1, 52, 229312, -7>>,           \* 5.2229312E+00
       <<1, 72, 60525, -7>>,            \* 7.2060525E+00
       <<1, 58, 488586, -7>>,           \* 5.8488586E+00
       <<1, 27, 754916, -7>>,           \* 2.7754916E+00
       <<1, 77, 75166, -8>>,            \* 7.7075166E-01
       <<1, 11, 582665, -8>>,           \* 1.1582665E-01
       <<1, 73, 138868, -10>> >>        \* 7.3138868E-03

TC_Coeff_N_mVToTemp_Range2 ==
    << <<1, 0, 0, -5>>,                 \* 0.00000E+00
       <<1, 0, 386896, -4>>,            \* 3.86896E+01
       <<-1, 0, 108267, -5>>,           \* -1.08267E+00
       <<1, 0, 470205, -7>>,            \* 4.70205E-02
       <<-1, 0, 212169, -11>>,          \* -2.12169E-06
       <<-1, 0, 117272, -9>>,           \* -1.17272E-04
       <<1, 0, 539280, -11>>,           \* 5.39280E-06
       <<-1, 0, 798156, -13>>,          \* -7.98156E-08
       <<1, 0, 0, -5>>,                 \* 0.00000E+00
       <<1, 0, 0, -5>> >>               \* 0.00000E+00

TC_Coeff_N_mVToTemp_Range3 ==
    << <<1, 1, 972485, -5>>,            \* 1.972485E+01
       <<1, 3, 300943, -5>>,            \* 3.300943E+01
       <<-1, 3, 915159, -7>>,           \* -3.915159E-01
       <<1, 9, 855391, -9>>,            \* 9.855391E-03
       <<-1, 1, 274371, -10>>,          \* -1.274371E-04
       <<1, 7, 767022, -13>>,           \* 7.767022E-07
       <<1, 0, 0, -6>>,                 \* 0.000000E+00
       <<1, 0, 0, -6>>,                 \* 0.000000E+00
       <<1, 0, 0, -6>>,                 \* 0.000000E+00
       <<1, 0, 0, -6>> >>               \* 0.000000E+00

TC_N_mVToTemp ==
    << [min |-> <<-1, 0, 4, 0>>, max |-> <<1, 0, 0, -1>>,  \* -4, 0.0
        poly |-> [pCoefficients |-> "TC_Coeff_N_mVToTemp_Range1",
                 length |-> Len(TC_Coeff_N_mVToTemp_Range1)]],
       [min |-> <<1, 0, 0, -1>>, max |-> <<1, 0, 20613, -3>>,  \* 0.0, 20.613
        poly |-> [pCoefficients |-> "TC_Coeff_N_mVToTemp_Range2",
                 length |-> Len(TC_Coeff_N_mVToTemp_Range2)]],
       [min |-> <<1, 0, 20613, -3>>, max |-> <<1, 0, 4752, -2>>,  \* 20.613, 47.52
        poly |-> [pCoefficients |-> "TC_Coeff_N_mVToTemp_Range3",
                 length |-> Len(TC_Coeff_N_mVToTemp_Range3)]] >>

TC_Coeff_N_TempToMV_Range1 ==
    << <<1, 0, 0, -12>>,                \* 0.000000000000E+00
       <<1, 261591, 59620, -13>>,       \* 0.261591059620E-01
       <<1, 109574, 842280, -16>>,      \* 0.109574842280E-04
       <<-1, 938411, 115540, -19>>,     \* -0.938411115540E-07
       <<-1, 464120, 397590, -22>>,     \* -0.464120397590E-10
       <<-1, 263033, 577160, -23>>,     \* -0.263033577160E-11
       <<-1, 226534, 380030, -25>>,     \* -0.226534380030E-13
       <<-1, 760893, 7910, -28>>,       \* -0.760893007910E-16
       <<-1, 934196, 678350, -31>> >>   \* -0.934196678350E-19

TC_Coeff_N_TempToMV_Range2 ==
    << <<1, 0, 0, -12>>,                \* 0.000000000000E+00
       <<1, 259293, 946010, -13>>,      \* 0.259293946010E-01
       <<1, 157101, 418800, -16>>,      \* 0.157101418800E-04
       <<1, 438256, 272370, -19>>,      \* 0.438256272370E-07
       <<-1, 252611, 697940, -21>>,     \* -0.252611697940E-09
       <<1, 643118, 193390, -24>>,      \* 0.643118193390E-12
       <<-1, 100634, 715190, -26>>,     \* -0.100634715190E-14
       <<1, 997453, 389920, -30>>,      \* 0.997453389920E-18
       <<-1, 608632, 456070, -33>>,     \* -0.608632456070E-21
       <<1, 208492, 293390, -36>>,      \* 0.208492293390E-24
       <<-1, 306821, 961510, -40>> >>   \* -0.306821961510E-28

TC_N_TempToMV ==
    << [min |-> <<-1, 0, 2705, -1>>, max |-> <<1, 0, 0, -1>>,  \* -270.5, 0.0
        poly |-> [pCoefficients |-> "TC_Coeff_N_TempToMV_Range1",
                 length |-> Len(TC_Coeff_N_TempToMV_Range1)]],
       [min |-> <<1, 0, 0, -1>>, max |-> <<1, 0, 13005, -1>>,  \* 0.0, 1300.5
        poly |-> [pCoefficients |-> "TC_Coeff_N_TempToMV_Range2",
                 length |-> Len(TC_Coeff_N_TempToMV_Range2)]] >>

\* The definitions above by name: arrays, scalars and range tables
StaticArrays ==
    [ TC_Coeff_R_mVToTemp_Range1 |-> TC_Coeff_R_mVToTemp_Range1,
      TC_Coeff_R_mVToTemp_Range2 |-> TC_Coeff_R_mVToTemp_Range2,
      TC_Coeff_R_mVToTemp_Range3 |-> TC_Coeff_R_mVToTemp_Range3,
      TC_Coeff_R_mVToTemp_Range4 |-> TC_Coeff_R_mVToTemp_Range4,
      TC_Coeff_R_TempToMV_Range1 |-> TC_Coeff_R_TempToMV_Range1,
      TC_Coeff_R_TempToMV_Range2 |-> TC_Coeff_R_TempToMV_Range2,
      TC_Coeff_R_TempToMV_Range3 |-> TC_Coeff_R_TempToMV_Range3,
      TC_Coeff_S_mVToTemp_Range1 |-> TC_Coeff_S_mVToTemp_Range1,
      TC_Coeff_S_mVToTemp_Range2 |-> TC_Coeff_S_mVToTemp_Range2,
      TC_Coeff_S_mVToTemp_Range3 |-> TC_Coeff_S_mVToTemp_Range3,
      TC_Coeff_S_mVToTemp_Range4 |-> TC_Coeff_S_mVToTemp_Range4,
      TC_Coeff_S_TempToMV_Range1 |-> TC_Coeff_S_TempToMV_Range1,
      TC_Coeff_S_TempToMV_Range2 |-> TC_Coeff_S_TempToMV_Range2,
      TC_Coeff_S_TempToMV_Range3 |-> TC_Coeff_S_TempToMV_Range3,
      TC_Coeff_B_mVToTemp_Range1 |-> TC_Coeff_B_mVToTemp_Range1,
      TC_Coeff_B_mVToTemp_Range2 |-> TC_Coeff_B_mVToTemp_Range2,
      TC_Coeff_B_TempToMV_Range1 |-> TC_Coeff_B_TempToMV_Range1,
      TC_Coeff_B_TempToMV_Range2 |-> TC_Coeff_B_TempToMV_Range2,
      TC_Coeff_J_mVToTemp_Range1 |-> TC_Coeff_J_mVToTemp_Range1,
      TC_Coeff_J_mVToTemp_Range2 |-> TC_Coeff_J_mVToTemp_Range2,
      TC_Coeff_J_mVToTemp_Range3 |-> TC_Coeff_J_mVToTemp_Range3,
      TC_Coeff_J_TempToMV_Range1 |-> TC_Coeff_J_TempToMV_Range1,
      TC_Coeff_J_TempToMV_Range2 |-> TC_Coeff_J_TempToMV_Range2,
      TC_Coeff_T_mVToTemp_Range1 |-> TC_Coeff_T_mVToTemp_Range1,
      TC_Coeff_T_mVToTemp_Range2 |-> TC_Coeff_T_mVToTemp_Range2,
      TC_Coeff_T_TempToMV_Range1 |-> TC_Coeff_T_TempToMV_Range1,
      TC_Coeff_T_TempToMV_Range2 |-> TC_Coeff_T_TempToMV_Range2,
      TC_Coeff_E_mVToTemp_Range1 |-> TC_Coeff_E_mVToTemp_Range1,
      TC_Coeff_E_mVToTemp_Range2 |-> TC_Coeff_E_mVToTemp_Range2,
      TC_Coeff_E_TempToMV_Range1 |-> TC_Coeff_E_TempToMV_Range1,
      TC_Coeff_E_TempToMV_Range2 |-> TC_Coeff_E_TempToMV_Range2,
      TC_Coeff_K_mVToTemp_Range1 |-> TC_Coeff_K_mVToTemp_Range1,
      TC_Coeff_K_mVToTemp_Range2 |-> TC_Coeff_K_mVToTemp_Range2,
      TC_Coeff_K_mVToTemp_Range3 |-> TC_Coeff_K_mVToTemp_Range3,
      TC_Coeff_K_TempToMV_Range1 |-> TC_Coeff_K_TempToMV_Range1,
      TC_Coeff_K_TempToMV_Range2 |-> TC_Coeff_K_TempToMV_Range2,
      TC_Coeff_N_mVToTemp_Range1 |-> TC_Coeff_N_mVToTemp_Range1,
      TC_Coeff_N_mVToTemp_Range2 |-> TC_Coeff_N_mVToTemp_Range2,
      TC_Coeff_N_mVToTemp_Range3 |-> TC_Coeff_N_mVToTemp_Range3,
      TC_Coeff_N_TempToMV_Range1 |-> TC_Coeff_N_TempToMV_Range1,
      TC_Coeff_N_TempToMV_Range2 |-> TC_Coeff_N_TempToMV_Range2 ]

StaticScalars ==
    [ TC_Coeff_K_TempToMV_A0 |-> TC_Coeff_K_TempToMV_A0,
      TC_Coeff_K_TempToMV_A1 |-> TC_Coeff_K_TempToMV_A1,
      TC_Coeff_K_TempToMV_A2 |-> TC_Coeff_K_TempToMV_A2 ]

StaticTables ==
    [ TC_R_mVToTemp |-> TC_R_mVToTemp,
      TC_R_TempToMV |-> TC_R_TempToMV,
      TC_S_mVToTemp |-> TC_S_mVToTemp,
      TC_S_TempToMV |-> TC_S_TempToMV,
      TC_B_mVToTemp |-> TC_B_mVToTemp,
      TC_B_TempToMV |-> TC_B_TempToMV,
      TC_J_mVToTemp |-> TC_J_mVToTemp,
      TC_J_TempToMV |-> TC_J_TempToMV,
      TC_T_mVToTemp |-> TC_T_mVToTemp,
      TC_T_TempToMV |-> TC_T_TempToMV,
      TC_E_mVToTemp |-> TC_E_mVToTemp,
      TC_E_TempToMV |-> TC_E_TempToMV,
      TC_K_mVToTemp |-> TC_K_mVToTemp,
      TC_N_mVToTemp |-> TC_N_mVToTemp,
      TC_N_TempToMV |-> TC_N_TempToMV ]

(***************************************************************************)
(* The static data in memory: every literal converted to its double.       *)
(***************************************************************************)
\* Conversions to uint8_t and to int8_t
ToUint8(n) == n % 256
ToInt8(n) == ((n + 128) % 256) - 128

DecLit(l) == Dec(l[1], l[2], l[3], l[4])

Doubles(lits) == SubSeq([i \in 1..Len(lits) |-> DecLit(lits[i])], 1, Len(lits))

RangeDoubles(table) ==
    SubSeq([k \in 1..Len(table) |->
               [min |-> DecLit(table[k].min), max |-> DecLit(table[k].max),
                poly |-> [pCoefficients |-> table[k].poly.pCoefficients,
                          length |-> ToUint8(table[k].poly.length)]]],
           1, Len(table))

ROM ==
    [n \in DOMAIN StaticArrays |-> Doubles(StaticArrays[n])]
        @@ [n \in DOMAIN StaticScalars |-> DecLit(StaticScalars[n])]
        @@ [n \in DOMAIN StaticTables |-> RangeDoubles(StaticTables[n])]

(***************************************************************************)
(* thermocouple_sensor.h: the failure value and enum ThermocoupleType.     *)
(***************************************************************************)
TC_CONVERSION_FAILED == Dec(-1, 0, 10, 5)  \* -1.0e6

TC_TYPE_R == 0
TC_TYPE_S == 1
TC_TYPE_B == 2
TC_TYPE_J == 3
TC_TYPE_T == 4
TC_TYPE_E == 5
TC_TYPE_K == 6
TC_TYPE_N == 7

\* A pointer to a coefficient array or to a range table is the name of the
\* array; a pointer to the PolyCoeff of a table entry (&ranges[i].poly) is
\* the table's name and the entry's index.
NULL == "NULL"
NullPoly == [table |-> NULL, index |-> 0]

\* Variant of TC_K_TempToMV_Range2_Min: the second range starts late
TC_K_TempToMV_Range2_Min_Gap == Dec(1, 0, 5, -1)

\* The literals of the inline type K ranges of TC_CalculateVoltage
TC_K_TempToMV_Range1_Min == Dec(-1, 0, 2705, -1)  \* -270.5
TC_K_TempToMV_Range1_Max == Dec(1, 0, 0, -1)      \* 0.0
TC_K_TempToMV_Range2_Min == Dec(1, 0, 0, -1)      \* 0.0
TC_K_TempToMV_Range2_Max == Dec(1, 0, 13725, -1)  \* 1372.5

\* switch (type) of TC_CalculateTemperature: the table `ranges` points to
TC_CalculateTemperature_Switch(t) ==
    CASE t = TC_TYPE_R -> "TC_R_mVToTemp"
      [] t = TC_TYPE_S -> "TC_S_mVToTemp"
      [] t = TC_TYPE_B -> "TC_B_mVToTemp"
      [] t = TC_TYPE_J -> "TC_J_mVToTemp"
      [] t = TC_TYPE_T -> "TC_T_mVToTemp"
      [] t = TC_TYPE_E -> "TC_E_mVToTemp"
      [] t = TC_TYPE_K -> "TC_K_mVToTemp"
      [] t = TC_TYPE_N -> "TC_N_mVToTemp"
      [] OTHER -> NULL

\* Variant of TC_CalculateVoltage_Switch: default falls into case TC_TYPE_N
TC_CalculateVoltage_Switch_DefaultN(t) ==
    CASE t = TC_TYPE_R -> "TC_R_TempToMV"
      [] t = TC_TYPE_S -> "TC_S_TempToMV"
      [] t = TC_TYPE_B -> "TC_B_TempToMV"
      [] t = TC_TYPE_J -> "TC_J_TempToMV"
      [] t = TC_TYPE_T -> "TC_T_TempToMV"
      [] t = TC_TYPE_E -> "TC_E_TempToMV"
      [] t = TC_TYPE_K -> NULL
      [] OTHER -> "TC_N_TempToMV"

\* switch (type) of TC_CalculateVoltage: case TC_TYPE_K leaves `ranges` NULL
TC_CalculateVoltage_Switch(t) ==
    CASE t = TC_TYPE_R -> "TC_R_TempToMV"
      [] t = TC_TYPE_S -> "TC_S_TempToMV"
      [] t = TC_TYPE_B -> "TC_B_TempToMV"
      [] t = TC_TYPE_J -> "TC_J_TempToMV"
      [] t = TC_TYPE_T -> "TC_T_TempToMV"
      [] t = TC_TYPE_E -> "TC_E_TempToMV"
      [] t = TC_TYPE_K -> NULL
      [] t = TC_TYPE_N -> "TC_N_TempToMV"
      [] OTHER -> NULL

\* TC_x_len: sizeof(table) / sizeof(table[0U]); 0U while ranges is NULL
TableLen(mem, table) == IF table = NULL THEN 0 ELSE Len(mem[table])

\* Variants of InRange: without the upper test, and with strict tests
InRange_NoUpperBound(value, r) == DGe(value, r.min)
InRange_Exclusive(value, r) == DGt(value, r.min) /\ DLt(value, r.max)

\* (value >= ranges[i].min) && (value <= ranges[i].max)
InRange(value, r) == DGe(value, r.min) /\ DLe(value, r.max)

\* Variants of FindPolyCoeff_Body: one returns the entry after the matching
\* one, the other moves the matching entry to the front of its table
FindPolyCoeff_Body_NextEntry(mem, f) ==
    IF DGe(f.value, mem[f.ranges][f.i + 1].min)
           /\ DLe(f.value, mem[f.ranges][f.i + 1].max)
    THEN [rom |-> mem, brk |-> TRUE,
          frame |-> [f EXCEPT !.result = [table |-> f.ranges,
                                          index |-> (f.i + 1) % f.len]]]
    ELSE [rom |-> mem, brk |-> FALSE,
          frame |-> [f EXCEPT !.i = f.i + 1]]
FindPolyCoeff_Body_MoveToFront(mem, f) ==
    IF DGe(f.value, mem[f.ranges][f.i + 1].min)
           /\ DLe(f.value, mem[f.ranges][f.i + 1].max)
    THEN [rom |-> [mem EXCEPT
                     ![f.ranges] = << @[f.i + 1] >> \o SubSeq(@, 1, f.i)
                                       \o SubSeq(@, f.i + 2, Len(@))],
          brk |-> TRUE,
          frame |-> [f EXCEPT !.result = [table |-> f.ranges, index |-> 0]]]
    ELSE [rom |-> mem, brk |-> FALSE,
          frame |-> [f EXCEPT !.i = f.i + 1]]

\* The read of ranges[i] is inside the table `ranges` points to
FindPolyCoeff_Reads(mem, f) ==
    f.ranges # NULL /\ f.i >= 0 /\ f.i < Len(mem[f.ranges])

\* Variant of FindPolyCoeff_Body without the break: the last match wins
FindPolyCoeff_Body_LastMatch(mem, f) ==
    IF DGe(f.value, mem[f.ranges][f.i + 1].min)
           /\ DLe(f.value, mem[f.ranges][f.i + 1].max)
    THEN [rom |-> mem, brk |-> FALSE,
          frame |-> [f EXCEPT !.result = [table |-> f.ranges, index |-> f.i],
                              !.i = f.i + 1]]
    ELSE [rom |-> mem, brk |-> FALSE,
          frame |-> [f EXCEPT !.i = f.i + 1]]

\* The body of the loop of FindPolyCoeff for the frame f: the static data
\* and the frame after it, and whether it left the loop by break.
FindPolyCoeff_Body(mem, f) ==
    IF InRange(f.value, mem[f.ranges][f.i + 1])
    THEN [rom |-> mem, brk |-> TRUE,
          frame |-> [f EXCEPT !.result = [table |-> f.ranges, index |-> f.i]]]
    ELSE [rom |-> mem, brk |-> FALSE,
          frame |-> [f EXCEPT !.i = f.i + 1]]

\* The read of pCoefficient[i] is inside the array pCoefficient points to
Polynomial_Evaluate_Reads(mem, f) ==
    f.pCoefficient # NULL /\ f.i >= 0 /\ f.i < Len(mem[f.pCoefficient])

\* Variant of Polynomial_Evaluate_Entry: the index starts at length
Polynomial_Evaluate_Entry_FromLength(p, n, x, site) ==
    [pCoefficient |-> p, length |-> ToUint8(n), input |-> x,
     i |-> ToInt8(ToUint8(n)), result |-> DZero, site |-> site]

\* The frame of Polynomial_Evaluate(pCoefficient, length, input) at entry;
\* site is the call it returns to.
Polynomial_Evaluate_Entry(p, n, x, site) ==
    [pCoefficient |-> p, length |-> ToUint8(n), input |-> x,
     i |-> ToInt8(ToUint8(n) - 1), result |-> DZero, site |-> site]

\* Variant of Polynomial_Evaluate_Body: the index is a uint8_t
Polynomial_Evaluate_Body_UnsignedIndex(mem, f) ==
    [rom |-> mem,
     frame |-> [f EXCEPT
                  !.result = DAdd(DMul(f.result, f.input),
                                  mem[f.pCoefficient][f.i + 1]),
                  !.i = ToUint8(f.i - 1)]]

\* Variants of Polynomial_Evaluate_Body: one keeps the running result in the
\* coefficient array, the other reads the coefficients highest degree first
Polynomial_Evaluate_Body_InPlace(mem, f) ==
    [rom |-> [mem EXCEPT
                ![f.pCoefficient][f.i + 1] = DAdd(DMul(f.result, f.input), @)],
     frame |-> [f EXCEPT
                  !.result = DAdd(DMul(f.result, f.input),
                                  mem[f.pCoefficient][f.i + 1]),
                  !.i = ToInt8(f.i - 1)]]
Polynomial_Evaluate_Body_Reversed(mem, f) ==
    [rom |-> mem,
     frame |-> [f EXCEPT
                  !.result = DAdd(DMul(f.result, f.input),
                                  mem[f.pCoefficient][f.length - f.i]),
                  !.i = ToInt8(f.i - 1)]]

\* The body of the loop of Polynomial_Evaluate and its --i
Polynomial_Evaluate_Body(mem, f) ==
    [rom |-> mem,
     frame |-> [f EXCEPT
                  !.result = DAdd(DMul(f.result, f.input),
                                  mem[f.pCoefficient][f.i + 1]),
                  !.i = ToInt8(f.i - 1)]]

\* Variant of TC_K_HasCorrection: temperature >= 0.0
TC_K_HasCorrection_Inclusive(T) == DGe(T, DZero)

\* case TC_TYPE_K: the two inline range tests and the test of the correction
TC_K_InRange1(T) ==
    DGe(T, TC_K_TempToMV_Range1_Min) /\ DLe(T, TC_K_TempToMV_Range1_Max)
TC_K_InRange2(T) ==
    DGt(T, TC_K_TempToMV_Range2_Min) /\ DLe(T, TC_K_TempToMV_Range2_Max)
TC_K_HasCorrection(T) == DGt(T, DZero)

\* pCoeff after the two tests, and sizeof(array) / sizeof(double), 0U for
\* the initial NULL
TC_K_Select(T) ==
    IF TC_K_InRange1(T) THEN "TC_Coeff_K_TempToMV_Range1"
    ELSE IF TC_K_InRange2(T) THEN "TC_Coeff_K_TempToMV_Range2"
    ELSE NULL
ArrayLen(mem, p) == IF p = NULL THEN 0 ELSE Len(mem[p])

\* A0 * exp(A1 * pow((temperature - A2), 2.0))
TC_K_Correction(mem, T) ==
    DMul(mem["TC_Coeff_K_TempToMV_A0"],
         DExp(DMul(mem["TC_Coeff_K_TempToMV_A1"],
                   DSquare(DSub(T, mem["TC_Coeff_K_TempToMV_A2"])))))

(***************************************************************************)
(* The callers.  Every caller has its own stack: the parameters and locals *)
(* of the public function it is in, and the frames of FindPolyCoeff (fpc)  *)
(* and Polynomial_Evaluate (pe).  The static data of the library (rom) is  *)
(* shared by all callers.                                                  *)
(***************************************************************************)
NCallers == 2
Callers == 1..NCallers

\* Type values a caller passes: the 8 enumerators and NInvalid values on
\* either side of them
NInvalid == 2
Types == (TC_TYPE_R - NInvalid)..(TC_TYPE_N + NInvalid)
ValidType(t) == t >= TC_TYPE_R /\ t <= TC_TYPE_N

\* Scalars a caller passes: a grid of temperatures (degrees C) and of
\* voltages (multiples of VGridStep / 4 mV), every bound of every range and the doubles
\* next to it.
TGridStep == 25
TGridBelow == 12
TGridAbove == 74
VGridStep == 5
VGridBelow == 8
VGridAbove == 62
TempGrid == {DFromInt(n * TGridStep, 0) : n \in (-TGridBelow)..TGridAbove}
VoltGrid == {DFromInt(n * VGridStep, -2) : n \in (-VGridBelow)..VGridAbove}

Around(x) == {DNextDown(x), x, DNextUp(x)}
TableEdges(table) ==
    UNION {Around(table[k].min) \cup Around(table[k].max) : k \in 1..Len(table)}
TC_K_TempToMV_Edges ==
    Around(TC_K_TempToMV_Range1_Min) \cup Around(TC_K_TempToMV_Range1_Max)
        \cup Around(TC_K_TempToMV_Range2_Max)

VoltageProbes(mem, t) ==
    IF ValidType(t)
    THEN VoltGrid \cup TableEdges(mem[TC_CalculateTemperature_Switch(t)])
    ELSE VoltGrid
TemperatureProbes(mem, t) ==
    IF t = TC_TYPE_K THEN TempGrid \cup TC_K_TempToMV_Edges
    ELSE IF ValidType(t)
    THEN TempGrid \cup TableEdges(mem[TC_CalculateVoltage_Switch(t)])
    ELSE TempGrid

\* The calls of the concurrent callers
ConcCalls ==
    << [fn |-> "TC_CalculateVoltage", type |-> TC_TYPE_R,
        scalar |-> DFromInt(1700, 0)],
       [fn |-> "TC_CalculateTemperature", type |-> TC_TYPE_B,
        scalar |-> DFromInt(1, 0)],
       [fn |-> "TC_CalculateVoltage", type |-> TC_TYPE_K,
        scalar |-> DFromInt(100, 0)] >>

VARIABLES
    rom,          \* the static data: coefficient arrays, range tables, A0..A2
    pc,           \* where each caller is
    fn,           \* the public function it called
    type,         \* parameter type
    temperature,  \* parameter of TC_CalculateVoltage, local of the other
    voltage,      \* parameter of TC_CalculateTemperature, local of the other
    ranges, ranges_len, poly,   \* locals of both public functions
    pCoeff, length, correction, \* locals of TC_CalculateVoltage
    fpc,          \* frame of FindPolyCoeff: ranges, len, value, i, result
    pe,           \* frame of Polynomial_Evaluate
    ret,          \* the value the call returned
    trace,        \* per call: calls of the two helpers, entries scanned,
                  \* Horner iterations
    origin,       \* the temperature whose voltage this call converts back
    key,          \* the index in ConcCalls of this call, or 0
    seen,         \* per index in ConcCalls, the first result returned
    str           \* the bytes the last sprintf of the example wrote from
                  \* &str[0] on

vars ==
    << rom, pc, fn, type, temperature, voltage, ranges, ranges_len, poly,
       pCoeff, length, correction, fpc, pe, ret, trace, origin, key, seen,
       str >>

NoFrameFPC ==
    [ranges |-> NULL, len |-> 0, value |-> DZero, i |-> 0, result |-> NullPoly]
NoFramePE == Polynomial_Evaluate_Entry(NULL, 0, DZero, "none")
NoTrace == [find |-> 0, scanned |-> 0, eval |-> 0, iters |-> 0]
NoOrigin == [set |-> FALSE, T |-> DZero]
NoSeen == [known |-> FALSE, value |-> DZero]

\* No caller is in a call
InitStacks ==
    /\ pc = [c \in Callers |-> "idle"]
    /\ fn = [c \in Callers |-> "none"]
    /\ type = [c \in Callers |-> TC_TYPE_R]
    /\ temperature = [c \in Callers |-> DZero]
    /\ voltage = [c \in Callers |-> DZero]
    /\ ranges = [c \in Callers |-> NULL]
    /\ ranges_len = [c \in Callers |-> 0]
    /\ poly = [c \in Callers |-> NullPoly]
    /\ pCoeff = [c \in Callers |-> NULL]
    /\ length = [c \in Callers |-> 0]
    /\ correction = [c \in Callers |-> DZero]
    /\ fpc = [c \in Callers |-> NoFrameFPC]
    /\ pe = [c \in Callers |-> NoFramePE]
    /\ ret = [c \in Callers |-> DZero]
    /\ trace = [c \in Callers |-> NoTrace]
    /\ origin = [c \in Callers |-> NoOrigin]
    /\ key = [c \in Callers |-> 0]
    /\ seen = [k \in 1..Len(ConcCalls) |-> NoSeen]
    /\ str = <<>>

Init ==
    /\ rom = ROM
    /\ InitStacks

\* The scalar parameter of the call caller c is in
Scalar(c) ==
    IF fn[c] = "TC_CalculateTemperature" THEN voltage[c] ELSE temperature[c]

(***************************************************************************)
(* TC_CalculateTemperature, entry to the end of the switch: the locals are *)
(* initialised and `ranges`, `ranges_len` selected by the type.            *)
(***************************************************************************)
TC_CalculateTemperature(c, t, v) ==
    /\ pc[c] \in {"idle", "done"}
    /\ fn' = [fn EXCEPT ![c] = "TC_CalculateTemperature"]
    /\ type' = [type EXCEPT ![c] = t]
    /\ voltage' = [voltage EXCEPT ![c] = v]
    /\ temperature' = [temperature EXCEPT ![c] = TC_CONVERSION_FAILED]
    /\ ranges' = [ranges EXCEPT ![c] = TC_CalculateTemperature_Switch(t)]
    /\ ranges_len' =
           [ranges_len EXCEPT
              ![c] = TableLen(rom, TC_CalculateTemperature_Switch(t))]
    /\ poly' = [poly EXCEPT ![c] = NullPoly]
    /\ pCoeff' = [pCoeff EXCEPT ![c] = NULL]
    /\ length' = [length EXCEPT ![c] = 0]
    /\ correction' = [correction EXCEPT ![c] = DZero]
    /\ fpc' = [fpc EXCEPT ![c] = NoFrameFPC]
    /\ pe' = [pe EXCEPT ![c] = NoFramePE]
    /\ ret' = [ret EXCEPT ![c] = DZero]
    /\ trace' = [trace EXCEPT ![c] = NoTrace]
    /\ pc' = [pc EXCEPT ![c] = "lookup"]
    /\ UNCHANGED <<rom, seen, str>>

(***************************************************************************)
(* TC_CalculateVoltage, entry to the end of the switch.  case TC_TYPE_K    *)
(* tests its two inline ranges, then calls Polynomial_Evaluate with pCoeff *)
(* and length whether or not one of them matched.                          *)
(***************************************************************************)
TC_CalculateVoltage(c, t, T) ==
    /\ pc[c] \in {"idle", "done"}
    /\ fn' = [fn EXCEPT ![c] = "TC_CalculateVoltage"]
    /\ type' = [type EXCEPT ![c] = t]
    /\ temperature' = [temperature EXCEPT ![c] = T]
    /\ voltage' = [voltage EXCEPT ![c] = TC_CONVERSION_FAILED]
    /\ ranges' = [ranges EXCEPT ![c] = TC_CalculateVoltage_Switch(t)]
    /\ ranges_len' =
           [ranges_len EXCEPT
              ![c] = TableLen(rom, TC_CalculateVoltage_Switch(t))]
    /\ poly' = [poly EXCEPT ![c] = NullPoly]
    /\ correction' = [correction EXCEPT ![c] = DZero]
    /\ fpc' = [fpc EXCEPT ![c] = NoFrameFPC]
    /\ ret' = [ret EXCEPT ![c] = DZero]
    /\ origin' = [origin EXCEPT ![c] = NoOrigin]
    /\ pCoeff' = [pCoeff EXCEPT
                    ![c] = IF t = TC_TYPE_K THEN TC_K_Select(T) ELSE NULL]
    /\ length' = [length EXCEPT ![c] = ArrayLen(rom, pCoeff'[c])]
    /\ IF t = TC_TYPE_K
       THEN /\ pe' = [pe EXCEPT
                        ![c] = Polynomial_Evaluate_Entry(
                                   pCoeff'[c], length'[c], T, "TC_TYPE_K")]
            /\ trace' = [trace EXCEPT ![c] = [NoTrace EXCEPT !.eval = 1]]
            /\ pc' = [pc EXCEPT ![c] = "eval"]
       ELSE /\ pe' = [pe EXCEPT ![c] = NoFramePE]
            /\ trace' = [trace EXCEPT ![c] = NoTrace]
            /\ pc' = [pc EXCEPT ![c] = "lookup"]
    /\ UNCHANGED <<rom, seen, str>>

\* A caller calls TC_CalculateTemperature with a type and a voltage
CallTemperature(c) ==
    /\ pc[c] = "idle"
    /\ \E t \in Types : \E v \in VoltageProbes(rom, t) :
           TC_CalculateTemperature(c, t, v)
    /\ origin' = [origin EXCEPT ![c] = NoOrigin]
    /\ key' = [key EXCEPT ![c] = 0]

\* A caller calls TC_CalculateVoltage with a type and a temperature
CallVoltage(c) ==
    /\ pc[c] = "idle"
    /\ \E t \in Types : \E T \in TemperatureProbes(rom, t) :
           TC_CalculateVoltage(c, t, T)
    /\ key' = [key EXCEPT ![c] = 0]

\* A caller passes the voltage TC_CalculateVoltage returned for a type back
\* to TC_CalculateTemperature with that type
RoundTrip(c) ==
    /\ pc[c] = "done"
    /\ fn[c] = "TC_CalculateVoltage"
    /\ ValidType(type[c])
    /\ key[c] = 0
    /\ TC_CalculateTemperature(c, type[c], ret[c])
    /\ origin' = [origin EXCEPT ![c] = [set |-> TRUE, T |-> temperature[c]]]
    /\ UNCHANGED key

\* A concurrent caller makes the k-th call of ConcCalls
ConcCall(c) ==
    /\ pc[c] = "idle"
    /\ \E k \in 1..Len(ConcCalls) :
           /\ key' = [key EXCEPT ![c] = k]
           /\ IF ConcCalls[k].fn = "TC_CalculateTemperature"
              THEN /\ TC_CalculateTemperature(c, ConcCalls[k].type,
                                              ConcCalls[k].scalar)
                   /\ origin' = [origin EXCEPT ![c] = NoOrigin]
              ELSE TC_CalculateVoltage(c, ConcCalls[k].type,
                                       ConcCalls[k].scalar)

(***************************************************************************)
(* if (ranges != NULL) poly = FindPolyCoeff(ranges, ranges_len, scalar):   *)
(* the call, up to the first test of the loop.                             *)
(***************************************************************************)
Lookup(c) ==
    /\ pc[c] = "lookup"
    /\ IF ranges[c] # NULL
       THEN /\ fpc' = [fpc EXCEPT
                         ![c] = [ranges |-> ranges[c], len |-> ranges_len[c],
                                 value |-> Scalar(c), i |-> 0,
                                 result |-> NullPoly]]
            /\ trace' = [trace EXCEPT ![c].find = @ + 1]
            /\ pc' = [pc EXCEPT ![c] = "find"]
       ELSE /\ pc' = [pc EXCEPT ![c] = "return"]
            /\ UNCHANGED <<fpc, trace>>
    /\ UNCHANGED <<rom, fn, type, temperature, voltage, ranges, ranges_len,
                   poly, pCoeff, length, correction, pe, ret, origin, key,
                   seen, str>>

(***************************************************************************)
(* FindPolyCoeff: one test of i < len and one turn of the loop, or the     *)
(* return of `result` into `poly` when the loop has ended.  A turn of the  *)
(* loop that reads ranges[i] outside the table is undefined behaviour.     *)
(***************************************************************************)
FindPolyCoeff(c) ==
    /\ pc[c] = "find"
    /\ IF fpc[c].i < fpc[c].len /\ ~FindPolyCoeff_Reads(rom, fpc[c])
       THEN /\ pc' = [pc EXCEPT ![c] = "fault"]
            /\ UNCHANGED <<rom, fpc, trace, poly>>
       ELSE IF fpc[c].i < fpc[c].len
       THEN LET b == FindPolyCoeff_Body(rom, fpc[c])
            IN  /\ rom' = b.rom
                /\ fpc' = [fpc EXCEPT ![c] = b.frame]
                /\ trace' = [trace EXCEPT ![c].scanned = @ + 1]
                /\ IF b.brk
                   THEN /\ poly' = [poly EXCEPT ![c] = b.frame.result]
                        /\ pc' = [pc EXCEPT ![c] = "found"]
                   ELSE UNCHANGED <<poly, pc>>
       ELSE /\ poly' = [poly EXCEPT ![c] = fpc[c].result]
            /\ pc' = [pc EXCEPT ![c] = "found"]
            /\ UNCHANGED <<rom, fpc, trace>>
    /\ UNCHANGED <<fn, type, temperature, voltage, ranges, ranges_len, pCoeff,
                   length, correction, pe, ret, origin, key, seen, str>>

(***************************************************************************)
(* if (poly != NULL) ... = Polynomial_Evaluate(poly->pCoefficients,        *)
(* poly->length, scalar): the call, up to the first test of the loop.      *)
(***************************************************************************)
Found(c) ==
    /\ pc[c] = "found"
    /\ IF poly[c] # NullPoly
       THEN LET p == rom[poly[c].table][poly[c].index + 1].poly
            IN  /\ pe' = [pe EXCEPT
                            ![c] = Polynomial_Evaluate_Entry(
                                       p.pCoefficients, p.length, Scalar(c),
                                       fn[c])]
                /\ trace' = [trace EXCEPT ![c].eval = @ + 1]
                /\ pc' = [pc EXCEPT ![c] = "eval"]
       ELSE /\ pc' = [pc EXCEPT ![c] = "return"]
            /\ UNCHANGED <<pe, trace>>
    /\ UNCHANGED <<rom, fn, type, temperature, voltage, ranges, ranges_len,
                   poly, pCoeff, length, correction, fpc, ret, origin, key,
                   seen, str>>

(***************************************************************************)
(* Polynomial_Evaluate: one test of i >= 0 and one turn of the loop, or    *)
(* the return of `result` to the call site when the loop has ended.  A     *)
(* turn of the loop that reads pCoefficient[i] through a null pointer or   *)
(* outside the array is undefined behaviour.                               *)
(***************************************************************************)
Polynomial_Evaluate(c) ==
    /\ pc[c] = "eval"
    /\ IF pe[c].i >= 0 /\ ~Polynomial_Evaluate_Reads(rom, pe[c])
       THEN /\ pc' = [pc EXCEPT ![c] = "fault"]
            /\ UNCHANGED <<rom, pe, trace, temperature, voltage>>
       ELSE IF pe[c].i >= 0
       THEN LET b == Polynomial_Evaluate_Body(rom, pe[c])
            IN  /\ rom' = b.rom
                /\ pe' = [pe EXCEPT ![c] = b.frame]
                /\ trace' = [trace EXCEPT ![c].iters = @ + 1]
                /\ UNCHANGED <<pc, temperature, voltage>>
       ELSE /\ IF pe[c].site = "TC_CalculateTemperature"
               THEN /\ temperature' = [temperature EXCEPT ![c] = pe[c].result]
                    /\ pc' = [pc EXCEPT ![c] = "return"]
                    /\ UNCHANGED voltage
               ELSE /\ voltage' = [voltage EXCEPT ![c] = pe[c].result]
                    /\ pc' = [pc EXCEPT
                                ![c] = IF pe[c].site = "TC_TYPE_K"
                                       THEN "correction" ELSE "return"]
                    /\ UNCHANGED temperature
            /\ UNCHANGED <<rom, pe, trace>>
    /\ UNCHANGED <<fn, type, ranges, ranges_len, poly, pCoeff, length,
                   correction, fpc, ret, origin, key, seen, str>>

(***************************************************************************)
(* case TC_TYPE_K after the evaluation: if (temperature > 0.0) the         *)
(* correction is computed and added; break.                                *)
(***************************************************************************)
TC_K_AddCorrection(c) ==
    /\ pc[c] = "correction"
    /\ IF TC_K_HasCorrection(temperature[c])
       THEN /\ correction' =
                   [correction EXCEPT
                      ![c] = TC_K_Correction(rom, temperature[c])]
            /\ voltage' =
                   [voltage EXCEPT ![c] = DAdd(voltage[c], correction'[c])]
       ELSE UNCHANGED <<correction, voltage>>
    /\ pc' = [pc EXCEPT ![c] = "lookup"]
    /\ UNCHANGED <<rom, fn, type, temperature, ranges, ranges_len, poly,
                   pCoeff, length, fpc, pe, ret, trace, origin, key, seen, str>>

\* return temperature; / return voltage;
ReturnValue(c) ==
    IF fn[c] = "TC_CalculateTemperature" THEN temperature[c] ELSE voltage[c]

Return(c) ==
    /\ pc[c] = "return"
    /\ ret' = [ret EXCEPT ![c] = ReturnValue(c)]
    /\ pc' = [pc EXCEPT ![c] = "done"]
    /\ seen' = IF key[c] # 0 /\ ~seen[key[c]].known
               THEN [seen EXCEPT
                       ![key[c]] = [known |-> TRUE, value |-> ReturnValue(c)]]
               ELSE seen
    /\ UNCHANGED <<rom, fn, type, temperature, voltage, ranges, ranges_len,
                   poly, pCoeff, length, correction, fpc, pe, trace, origin,
                   key, str>>

\* The caller has used the result; its stack is free again
Resume(c) ==
    /\ pc[c] = "done"
    /\ pc' = [pc EXCEPT ![c] = "idle"]
    /\ fn' = [fn EXCEPT ![c] = "none"]
    /\ type' = [type EXCEPT ![c] = TC_TYPE_R]
    /\ temperature' = [temperature EXCEPT ![c] = DZero]
    /\ voltage' = [voltage EXCEPT ![c] = DZero]
    /\ ranges' = [ranges EXCEPT ![c] = NULL]
    /\ ranges_len' = [ranges_len EXCEPT ![c] = 0]
    /\ poly' = [poly EXCEPT ![c] = NullPoly]
    /\ pCoeff' = [pCoeff EXCEPT ![c] = NULL]
    /\ length' = [length EXCEPT ![c] = 0]
    /\ correction' = [correction EXCEPT ![c] = DZero]
    /\ fpc' = [fpc EXCEPT ![c] = NoFrameFPC]
    /\ pe' = [pe EXCEPT ![c] = NoFramePE]
    /\ ret' = [ret EXCEPT ![c] = DZero]
    /\ trace' = [trace EXCEPT ![c] = NoTrace]
    /\ origin' = [origin EXCEPT ![c] = NoOrigin]
    /\ key' = [key EXCEPT ![c] = 0]
    /\ UNCHANGED <<rom, seen, str>>

\* The steps inside a call
Step(c) ==
    \/ Lookup(c)
    \/ FindPolyCoeff(c)
    \/ Found(c)
    \/ Polynomial_Evaluate(c)
    \/ TC_K_AddCorrection(c)
    \/ Return(c)
    \/ Resume(c)

\* One caller, any call with any probe, and round trips
Next ==
    \/ CallTemperature(1)
    \/ CallVoltage(1)
    \/ RoundTrip(1)
    \/ Step(1)

Spec == Init /\ [][Next]_vars

\* Concurrent callers, each making calls of ConcCalls in any order
NextConc ==
    \E c \in Callers : ConcCall(c) \/ Step(c)

SpecConc == Init /\ [][NextConc]_vars

(***************************************************************************)
(* The two static helpers called on their own: FindPolyCoeff with any      *)
(* small table and probe, Polynomial_Evaluate with any short coefficient   *)
(* sequence and input.  The static data then holds one table and one       *)
(* coefficient array.                                                      *)
(***************************************************************************)
MaxEntries == 2   \* entries of a table
MaxBound == 3     \* min and max of an entry are in 0..MaxBound
MaxCoeffs == 3    \* coefficients of a sequence
MaxCoeff == 2     \* a coefficient is in -MaxCoeff..MaxCoeff
MaxInput == 3     \* an input is n/2 for n in -MaxInput..MaxInput

HelperEntries ==
    {[min |-> DFromInt(a, 0), max |-> DFromInt(b, 0),
      poly |-> [pCoefficients |-> "coefficients", length |-> 1]] :
         a \in 0..MaxBound, b \in 0..MaxBound}
HelperTables == UNION {[1..n -> HelperEntries] : n \in 1..MaxEntries}
HelperProbes == {DFromInt(n, -1) : n \in (-1)..(2 * MaxBound + 1)}
HelperCoeffs ==
    UNION {[1..n -> {DFromInt(k, 0) : k \in (-MaxCoeff)..MaxCoeff}] :
              n \in 1..MaxCoeffs}
HelperInputs == {DFromInt(n, -1) : n \in (-MaxInput)..MaxInput}

InitHelpers ==
    /\ rom \in {[table |-> t, coefficients |-> cs] :
                   t \in HelperTables, cs \in {<<DFromInt(1, 0)>>}}
               \cup {[table |-> t, coefficients |-> cs] :
                        t \in [1..1 -> HelperEntries], cs \in HelperCoeffs}
    /\ InitStacks

\* FindPolyCoeff(table, len, value): the call, up to the first test of the
\* loop
CallFindPolyCoeff(c) ==
    /\ pc[c] = "idle"
    /\ \E v \in HelperProbes :
           fpc' = [fpc EXCEPT
                     ![c] = [ranges |-> "table", len |-> Len(rom["table"]),
                             value |-> v, i |-> 0, result |-> NullPoly]]
    /\ fn' = [fn EXCEPT ![c] = "FindPolyCoeff"]
    /\ trace' = [trace EXCEPT ![c] = [NoTrace EXCEPT !.find = 1]]
    /\ pc' = [pc EXCEPT ![c] = "find"]
    /\ UNCHANGED <<rom, type, temperature, voltage, ranges, ranges_len, poly,
                   pCoeff, length, correction, pe, ret, origin, key, seen, str>>

\* The caller of FindPolyCoeff has the pointer it returned
ReturnPoly(c) ==
    /\ pc[c] = "found"
    /\ fn[c] = "FindPolyCoeff"
    /\ pc' = [pc EXCEPT ![c] = "done"]
    /\ UNCHANGED <<rom, fn, type, temperature, voltage, ranges, ranges_len,
                   poly, pCoeff, length, correction, fpc, pe, ret, trace,
                   origin, key, seen, str>>

\* Polynomial_Evaluate(coefficients, length, input): the call, up to the
\* first test of the loop
CallPolynomial_Evaluate(c) ==
    /\ pc[c] = "idle"
    /\ \E x \in HelperInputs :
           pe' = [pe EXCEPT
                    ![c] = Polynomial_Evaluate_Entry(
                               "coefficients", Len(rom["coefficients"]), x,
                               "Polynomial_Evaluate")]
    /\ fn' = [fn EXCEPT ![c] = "Polynomial_Evaluate"]
    /\ trace' = [trace EXCEPT ![c] = [NoTrace EXCEPT !.eval = 1]]
    /\ pc' = [pc EXCEPT ![c] = "eval"]
    /\ UNCHANGED <<rom, type, temperature, voltage, ranges, ranges_len, poly,
                   pCoeff, length, correction, fpc, ret, origin, key, seen, str>>

NextHelpers ==
    \/ CallFindPolyCoeff(1)
    \/ FindPolyCoeff(1)
    \/ ReturnPoly(1)
    \/ CallPolynomial_Evaluate(1)
    \/ Polynomial_Evaluate(1)
    \/ Return(1)
    \/ Resume(1)

SpecHelpers == InitHelpers /\ [][NextHelpers]_vars

(***************************************************************************)
(* What a step inside a call does to the position of the caller and to     *)
(* its counters: the tests of Lookup, FindPolyCoeff, Found,                *)
(* Polynomial_Evaluate, TC_K_AddCorrection, Return and Resume, without the *)
(* values they compute.  A step of the caller is a Step(c) step exactly    *)
(* when it is a StepControl(c) step.                                       *)
(***************************************************************************)
control == <<pc, trace>>

StepControl(c) ==
    \/ /\ pc[c] = "lookup"
       /\ pc' = [pc EXCEPT
                   ![c] = IF ranges[c] # NULL THEN "find" ELSE "return"]
       /\ trace' = [trace EXCEPT
                      ![c].find = IF ranges[c] # NULL THEN @ + 1 ELSE @]
    \/ /\ pc[c] = "find"
       /\ pc' = [pc EXCEPT
                   ![c] = IF fpc[c].i >= fpc[c].len THEN "found"
                          ELSE IF ~FindPolyCoeff_Reads(rom, fpc[c])
                          THEN "fault"
                          ELSE IF FindPolyCoeff_Body(rom, fpc[c]).brk
                          THEN "found" ELSE "find"]
       /\ trace' = [trace EXCEPT
                      ![c].scanned =
                          IF fpc[c].i < fpc[c].len
                             /\ FindPolyCoeff_Reads(rom, fpc[c])
                          THEN @ + 1 ELSE @]
    \/ /\ pc[c] = "found"
       /\ pc' = [pc EXCEPT
                   ![c] = IF poly[c] # NullPoly THEN "eval" ELSE "return"]
       /\ trace' = [trace EXCEPT
                      ![c].eval = IF poly[c] # NullPoly THEN @ + 1 ELSE @]
    \/ /\ pc[c] = "eval"
       /\ pc' = [pc EXCEPT
                   ![c] = IF pe[c].i >= 0
                          THEN IF Polynomial_Evaluate_Reads(rom, pe[c])
                               THEN "eval" ELSE "fault"
                          ELSE IF pe[c].site = "TC_TYPE_K"
                          THEN "correction" ELSE "return"]
       /\ trace' = [trace EXCEPT
                      ![c].iters =
                          IF pe[c].i >= 0
                             /\ Polynomial_Evaluate_Reads(rom, pe[c])
                          THEN @ + 1 ELSE @]
    \/ /\ pc[c] = "correction"
       /\ pc' = [pc EXCEPT ![c] = "lookup"]
       /\ UNCHANGED trace
    \/ /\ pc[c] = "return"
       /\ pc' = [pc EXCEPT ![c] = "done"]
       /\ UNCHANGED trace
    \/ /\ pc[c] = "done"
       /\ pc' = [pc EXCEPT ![c] = "idle"]
       /\ trace' = [trace EXCEPT ![c] = NoTrace]

\* One caller as in Spec; a call that can take a step takes it (the
\* processor goes on to the next statement)
SpecLive == Init /\ [][Next]_vars /\ WF_control(StepControl(1))

(***************************************************************************)
(* The example program (main.c): char str[20]; a conversion; sprintf of    *)
(* the result into str with "Temperature is %f" or "Voltage is %f".        *)
(* A string is the sequence of its characters; sprintf writes the          *)
(* characters of the output and a terminating NUL from &str[0] on.         *)
(***************************************************************************)
StrSize == 20
NUL == "NUL"

DigitChars == <<"0", "1", "2", "3", "4", "5", "6", "7", "8", "9">>

\* The decimal digits of the natural a, highest first (none for 0)
RECURSIVE BigDecimal(_)
BigDecimal(a) ==
    IF a = <<>> THEN <<>>
    ELSE BigDecimal(BigDivSmall(a, 10).q)
             \o <<DigitChars[BigDivSmall(a, 10).r + 1]>>

\* a / 2^k rounded to the nearest natural, ties to even (k >= 1)
BigShrNearest(a, k) ==
    IF BigBit(a, k - 1) = 1
       /\ (~BigLowZero(a, k - 1) \/ BigBit(BigShr(a, k), 0) = 1)
    THEN BigAdd(BigShr(a, k), <<1>>)
    ELSE BigShr(a, k)

\* |v| * 10^6 rounded to the nearest natural: the digits %f prints with its
\* default precision of 6
Micros(v) ==
    IF DIsZero(v) THEN <<>>
    ELSE IF v.e >= 0 THEN BigShl(BigMulPow10(v.m, 6), v.e)
    ELSE BigShrNearest(BigMulPow10(v.m, 6), -v.e)

\* digits with zeros in front up to n digits
RECURSIVE ZeroPad(_, _)
ZeroPad(digits, n) ==
    IF Len(digits) >= n THEN digits ELSE ZeroPad(<<"0">> \o digits, n)

\* The conversion %f of a double, from its digits with at least one before
\* the point
Format_f_Digits(sign, d) ==
    (IF sign = 1 THEN <<"-">> ELSE <<>>)
        \o SubSeq(d, 1, Len(d) - 6) \o <<".">> \o SubSeq(d, Len(d) - 5, Len(d))
Format_f(v) == Format_f_Digits(v.s, ZeroPad(BigDecimal(Micros(v)), 7))

\* "Temperature is " and "Voltage is ", the text before %f in the format of
\* the sprintf after each conversion
ExampleFormat(f) ==
    IF f = "TC_CalculateTemperature"
    THEN <<"T", "e", "m", "p", "e", "r", "a", "t", "u", "r", "e", " ",
           "i", "s", " ">>
    ELSE <<"V", "o", "l", "t", "a", "g", "e", " ", "i", "s", " ">>

\* What sprintf(str, "<text>%f", v) writes
sprintf(text, v) == text \o Format_f(v) \o <<NUL>>

\* TC = TC_TYPE_K; then TC_CalculateTemperature(TC, 17.85), and
\* TC_CalculateVoltage(TC, -156)
ExampleVoltage == DecLit(<<1, 0, 1785, -2>>)
ExampleTemperature == DFromInt(-156, 0)

main(c) ==
    /\ pc[c] = "idle"
    /\ \/ /\ TC_CalculateTemperature(c, TC_TYPE_K, ExampleVoltage)
          /\ origin' = [origin EXCEPT ![c] = NoOrigin]
       \/ TC_CalculateVoltage(c, TC_TYPE_K, ExampleTemperature)
    /\ key' = [key EXCEPT ![c] = 0]

\* sprintf(str, "Temperature is %f", temperature); and
\* sprintf(str, "Voltage is %f", voltage); with the value the call returned.
\* Output longer than str is written past its end: undefined behaviour,
\* after which nothing is known of the program.
Sprintf(c) ==
    /\ pc[c] = "done"
    /\ str' = sprintf(ExampleFormat(fn[c]), ret[c])
    /\ pc' = [pc EXCEPT
                ![c] = IF Len(str') <= StrSize THEN "printed" ELSE "overflow"]
    /\ UNCHANGED <<rom, fn, type, temperature, voltage, ranges, ranges_len,
                   poly, pCoeff, length, correction, fpc, pe, ret, trace,
                   origin, key, seen>>

\* The example with any conversion in place of its two, and its own two
NextExample ==
    \/ main(1)
    \/ Sprintf(1)
    \/ Next

SpecExample == Init /\ [][NextExample]_vars

(***************************************************************************)
(* The properties.  A call is judged in the state after its return, where  *)
(* the parameters, the locals, the two frames and the trace of the call    *)
(* are still in place.                                                     *)
(***************************************************************************)
Returned(c) == pc[c] = "done"
InTemperature(c) == Returned(c) /\ fn[c] = "TC_CalculateTemperature"
InVoltage(c) == Returned(c) /\ fn[c] = "TC_CalculateVoltage"
IsTypeKVoltage(f, t) == f = "TC_CalculateVoltage" /\ t = TC_TYPE_K

\* The range table the library holds for a valid type in a direction
TableOf(f, t) ==
    IF f = "TC_CalculateTemperature"
    THEN rom[TC_CalculateTemperature_Switch(t)]
    ELSE rom[TC_CalculateVoltage_Switch(t)]

\* The ranges of a valid type in a direction, each with its coefficient
\* array: the entries of the range table or, for the voltage of type K, the
\* two inline ranges
RangesOf(f, t) ==
    IF IsTypeKVoltage(f, t)
    THEN << [min |-> TC_K_TempToMV_Range1_Min,
             max |-> TC_K_TempToMV_Range1_Max,
             pCoefficients |-> "TC_Coeff_K_TempToMV_Range1"],
            [min |-> TC_K_TempToMV_Range2_Min,
             max |-> TC_K_TempToMV_Range2_Max,
             pCoefficients |-> "TC_Coeff_K_TempToMV_Range2"] >>
    ELSE [k \in 1..Len(TableOf(f, t)) |->
             [min |-> TableOf(f, t)[k].min, max |-> TableOf(f, t)[k].max,
              pCoefficients |-> TableOf(f, t)[k].poly.pCoefficients]]

Within(x, lo, hi) == DLe(lo, x) /\ DLe(x, hi)
DomainMin(f, t) == RangesOf(f, t)[1].min
DomainMax(f, t) == RangesOf(f, t)[Len(RangesOf(f, t))].max
InDomain(x, f, t) == Within(x, DomainMin(f, t), DomainMax(f, t))
OutOfDomain(x, f, t) == DLt(x, DomainMin(f, t)) \/ DLt(DomainMax(f, t), x)

\* The call evaluated, once and to the end, the polynomial of a range that
\* holds its scalar
EvaluatedRange(c, r) ==
    /\ Within(Scalar(c), r.min, r.max)
    /\ pe[c].pCoefficient = r.pCoefficients
    /\ pe[c].length = Len(rom[r.pCoefficients])
EvaluatedSelected(c) ==
    /\ trace[c].eval = 1
    /\ pe[c].input = Scalar(c)
    /\ pe[c].i = -1
    /\ trace[c].iters = pe[c].length
    /\ \E k \in 1..Len(RangesOf(fn[c], type[c])) :
           EvaluatedRange(c, RangesOf(fn[c], type[c])[k])

\* The result of a conversion: the value of the polynomial, plus the
\* correction for a type K temperature above 0
Converted(c) ==
    IF IsTypeKVoltage(fn[c], type[c]) /\ DLt(DZero, temperature[c])
    THEN DAdd(pe[c].result, correction[c])
    ELSE pe[c].result

\* C1: TC_CalculateVoltage returns TC_CONVERSION_FAILED for each of the 8
\* types, K included, when the temperature is strictly outside the type's
\* temperature domain.
C1_OutOfDomainTemperatureFails ==
    \A c \in Callers :
        (/\ InVoltage(c)
         /\ ValidType(type[c])
         /\ OutOfDomain(temperature[c], fn[c], type[c]))
            => ret[c] = TC_CONVERSION_FAILED

\* C2: TC_CalculateTemperature returns TC_CONVERSION_FAILED for each of the
\* 8 types when the voltage is strictly outside the type's voltage domain.
C2_OutOfDomainVoltageFails ==
    \A c \in Callers :
        (/\ InTemperature(c)
         /\ ValidType(type[c])
         /\ OutOfDomain(voltage[c], fn[c], type[c]))
            => ret[c] = TC_CONVERSION_FAILED

C2_Witness ==
    \E c \in Callers :
        /\ InTemperature(c)
        /\ type[c] = TC_TYPE_K
        /\ voltage[c] = DNextUp(DomainMax(fn[c], type[c]))
        /\ trace[c].scanned = Len(RangesOf(fn[c], type[c]))
        /\ ret[c] = TC_CONVERSION_FAILED

\* C3: for a type that is none of the 8 enumerators both functions return
\* TC_CONVERSION_FAILED at once: neither FindPolyCoeff nor
\* Polynomial_Evaluate is called.
C3_InvalidTypeFailsAtOnce ==
    \A c \in Callers :
        (Returned(c) /\ ~ValidType(type[c]))
            => ret[c] = TC_CONVERSION_FAILED /\ trace[c] = NoTrace

C3_Witness ==
    \E c \in Callers :
        /\ InVoltage(c)
        /\ type[c] = TC_TYPE_N + 1
        /\ temperature[c] = DFromInt(4 * TGridStep, 0)
        /\ trace[c] = NoTrace
        /\ ret[c] = TC_CONVERSION_FAILED

\* A0 * exp(A1 * (T - A2)^2)
KCorrectionTerm(T) ==
    DMul(ROM["TC_Coeff_K_TempToMV_A0"],
         DExp(DMul(ROM["TC_Coeff_K_TempToMV_A1"],
                   DSquare(DSub(T, ROM["TC_Coeff_K_TempToMV_A2"])))))

\* C4: for type K in TC_CalculateVoltage the correction A0*exp(A1*(T-A2)^2)
\* is added exactly when T > 0.0: for -270.5 <= T <= 0.0 the result is the
\* value of the polynomial of the first range, for 0.0 < T <= 1372.5 it is
\* the value of the polynomial of the second range plus the (nonzero)
\* correction.
C4_TypeKCorrection ==
    \A c \in Callers :
        (/\ InVoltage(c)
         /\ type[c] = TC_TYPE_K
         /\ InDomain(temperature[c], fn[c], type[c]))
            => /\ EvaluatedSelected(c)
               /\ IF DLt(DZero, temperature[c])
                  THEN /\ pe[c].pCoefficient = "TC_Coeff_K_TempToMV_Range2"
                       /\ correction[c] = KCorrectionTerm(temperature[c])
                       /\ correction[c] # DZero
                       /\ ret[c] = DAdd(pe[c].result, correction[c])
                  ELSE /\ pe[c].pCoefficient = "TC_Coeff_K_TempToMV_Range1"
                       /\ correction[c] = DZero
                       /\ ret[c] = pe[c].result

C4_Witness ==
    \E c \in Callers :
        /\ InVoltage(c)
        /\ type[c] = TC_TYPE_K
        /\ temperature[c] = DFromInt(4 * TGridStep, 0)
        /\ correction[c] # DZero
        /\ ret[c] = DAdd(pe[c].result, correction[c])
        /\ ret[c] # pe[c].result

\* C5: for the seven types other than K in TC_CalculateVoltage and for all
\* eight types in TC_CalculateTemperature, an in-domain input returns
\* exactly the value Polynomial_Evaluate computed from the coefficients of a
\* range that holds the input; no correction is computed or added.
C5_PlainPolynomial ==
    \A c \in Callers :
        (/\ Returned(c)
         /\ ValidType(type[c])
         /\ ~IsTypeKVoltage(fn[c], type[c])
         /\ InDomain(Scalar(c), fn[c], type[c]))
            => /\ EvaluatedSelected(c)
               /\ ret[c] = pe[c].result
               /\ correction[c] = DZero

C5_Witness ==
    \E c \in Callers :
        /\ InTemperature(c)
        /\ type[c] = TC_TYPE_K
        /\ voltage[c] = DFromInt(8 * VGridStep, -2)
        /\ pe[c].pCoefficient = "TC_Coeff_K_mVToTemp_Range2"
        /\ trace[c].iters = Len(rom["TC_Coeff_K_mVToTemp_Range2"])
        /\ ret[c] = pe[c].result

\* C6: an input equal to the min or to the max of any range of any type, in
\* either direction (the two inline type K ranges included), is accepted: a
\* range is selected and the result is the conversion, not the failure
\* value.
AtBound(x, f, t) ==
    \E k \in 1..Len(RangesOf(f, t)) :
        x = RangesOf(f, t)[k].min \/ x = RangesOf(f, t)[k].max

C6_BoundsAccepted ==
    \A c \in Callers :
        (/\ Returned(c)
         /\ ValidType(type[c])
         /\ AtBound(Scalar(c), fn[c], type[c]))
            => /\ EvaluatedSelected(c)
               /\ ret[c] = Converted(c)
               /\ ret[c] # TC_CONVERSION_FAILED

C6_Witness ==
    \E c \in Callers :
        /\ InTemperature(c)
        /\ type[c] = TC_TYPE_R
        /\ voltage[c] = DomainMin(fn[c], type[c])
        /\ pe[c].pCoefficient = "TC_Coeff_R_mVToTemp_Range1"
        /\ ret[c] = pe[c].result
        /\ ret[c] # TC_CONVERSION_FAILED

\* The per-type domains of section 6 of the specification, R S B J T E K N
SpecVoltageLiterals ==
    << << <<-1, 0, 228, -3>>, <<1, 0, 21105, -3>> >>,   \* R -0.228  21.105
       << <<-1, 0, 237, -3>>, <<1, 0, 18697, -3>> >>,   \* S -0.237  18.697
       << <<1, 0, 292, -3>>, <<1, 0, 13825, -3>> >>,    \* B  0.292  13.825
       << <<-1, 0, 81, -1>>, <<1, 0, 6958, -2>> >>,     \* J -8.1    69.58
       << <<-1, 0, 561, -2>>, <<1, 0, 2088, -2>> >>,    \* T -5.61   20.88
       << <<-1, 0, 884, -2>>, <<1, 0, 7638, -2>> >>,    \* E -8.84   76.38
       << <<-1, 0, 5895, -3>>, <<1, 0, 52425, -3>> >>,  \* K -5.895  52.425
       << <<-1, 0, 4, 0>>, <<1, 0, 4752, -2>> >> >>     \* N -4      47.52
SpecTemperatureLiterals ==
    << << <<-1, 0, 505, -1>>, <<1, 0, 17685, -1>> >>,   \* R  -50.5  1768.5
       << <<-1, 0, 505, -1>>, <<1, 0, 17685, -1>> >>,   \* S  -50.5  1768.5
       << <<-1, 0, 5, -1>>, <<1, 0, 18205, -1>> >>,     \* B   -0.5  1820.5
       << <<-1, 0, 2105, -1>>, <<1, 0, 12005, -1>> >>,  \* J -210.5  1200.5
       << <<-1, 0, 2705, -1>>, <<1, 0, 4005, -1>> >>,   \* T -270.5   400.5
       << <<-1, 0, 2705, -1>>, <<1, 0, 10005, -1>> >>,  \* E -270.5  1000.5
       << <<-1, 0, 2705, -1>>, <<1, 0, 13725, -1>> >>,  \* K -270.5  1372.5
       << <<-1, 0, 2705, -1>>, <<1, 0, 13005, -1>> >> >> \* N -270.5 1300.5
SpecDomains(lits) ==
    SubSeq([k \in 1..Len(lits) |->
               [lo |-> DecLit(lits[k][1]), hi |-> DecLit(lits[k][2])]],
           1, Len(lits))
SpecVoltageDomain == SpecDomains(SpecVoltageLiterals)
SpecTemperatureDomain == SpecDomains(SpecTemperatureLiterals)
SpecDomain(f, t) ==
    IF f = "TC_CalculateTemperature"
    THEN SpecVoltageDomain[t - TC_TYPE_R + 1]
    ELSE SpecTemperatureDomain[t - TC_TYPE_R + 1]

Directions == {"TC_CalculateTemperature", "TC_CalculateVoltage"}
ValidTypes == TC_TYPE_R..TC_TYPE_N

\* min < max in every range, each max is the next min, and the ends are
\* the ends of the domain of section 6
RangesCover(r, d) ==
    /\ \A k \in 1..Len(r) : DLt(r[k].min, r[k].max)
    /\ \A k \in 1..(Len(r) - 1) : r[k].max = r[k + 1].min
    /\ r[1].min = d.lo
    /\ r[Len(r)].max = d.hi

\* C7: for every type and direction the ranges ascend with min < max, each
\* max equals the next min, and the first min and last max are the domain
\* bounds of section 6 of the specification; so every input inside a type's
\* domain is matched by a range and converted, not rejected.
C7_RangesCoverDomain ==
    /\ \A f \in Directions : \A t \in ValidTypes :
           RangesCover(RangesOf(f, t), SpecDomain(f, t))
    /\ \A c \in Callers :
           (/\ Returned(c)
            /\ ValidType(type[c])
            /\ Within(Scalar(c), SpecDomain(fn[c], type[c]).lo,
                      SpecDomain(fn[c], type[c]).hi))
               => /\ EvaluatedSelected(c)
                  /\ ret[c] = Converted(c)

C7_Witness ==
    \E c \in Callers :
        /\ InVoltage(c)
        /\ type[c] = TC_TYPE_B
        /\ temperature[c] = RangesOf(fn[c], type[c])[2].min
        /\ temperature[c] = RangesOf(fn[c], type[c])[1].max
        /\ pe[c].pCoefficient = "TC_Coeff_B_TempToMV_Range1"
        /\ ret[c] = pe[c].result

\* C8: two calls with the same (type, scalar) arguments return the same
\* result, whatever calls came before or between them and whatever other
\* callers run at the same time.
C8_SameArgumentsSameResult ==
    /\ \A c \in Callers :
           (Returned(c) /\ key[c] # 0)
               => seen[key[c]].known /\ ret[c] = seen[key[c]].value
    /\ \A c \in Callers : \A d \in Callers :
           (Returned(c) /\ Returned(d) /\ key[c] = key[d]) => ret[c] = ret[d]

C8_Witness ==
    \E c \in Callers : \E d \in Callers :
        /\ c # d
        /\ Returned(c)
        /\ key[c] = 3
        /\ pc[d] = "eval"
        /\ key[d] = 3
        /\ pe[d].i < pe[d].length - 1
        /\ seen[1].known
        /\ ret[c] = seen[3].value

\* The parameters, locals and frames of a caller
Stack(c) ==
    << fn[c], type[c], temperature[c], voltage[c], ranges[c], ranges_len[c],
       poly[c], pCoeff[c], length[c], correction[c], fpc[c], pe[c] >>

\* C9: no step of any call, in any order or interleaving, writes to a
\* coefficient array, a range table or another static datum, and a step
\* changes the variables of one caller only.
C9_StaticDataNeverWritten ==
    [][/\ rom' = rom
       /\ rom = ROM
       /\ \A c \in Callers : \A d \in Callers :
              (Stack(c)' # Stack(c) /\ Stack(d)' # Stack(d)) => c = d]_vars

C9_Witness ==
    \E c \in Callers : \E d \in Callers :
        /\ c # d
        /\ Returned(c)
        /\ trace[c].iters > 0
        /\ pc[d] = "find"
        /\ fpc[d].i > 0
        /\ rom = ROM

\* 0.05 degrees C, and a whole degree for "larger near range boundaries"
RoundTripTolerance == Dec(1, 0, 5, -2)
RoundTripLooseTolerance == Dec(1, 0, 1, 0)
DAbs(x) == IF DIsZero(x) THEN x ELSE [x EXCEPT !.s = 0]
Close(a, b) == DLe(DAbs(DSub(a, b)), RoundTripTolerance)
Near(a, b) == DLe(DAbs(DSub(a, b)), RoundTripLooseTolerance)

\* C10 as stated: for every type and every temperature T in the type's
\* temperature domain, TC_CalculateTemperature(type,
\* TC_CalculateVoltage(type, T)) is within a small tolerance of T (taken
\* here as large as a whole degree).
C10_RoundTripInTemperatureDomain ==
    \A c \in Callers :
        (/\ InTemperature(c)
         /\ origin[c].set
         /\ InDomain(origin[c].T, "TC_CalculateVoltage", type[c]))
            => Near(ret[c], origin[c].T)

\* C10 amended: for every type and every temperature T in the type's
\* temperature domain, the round trip is within 0.05 degrees C of T when
\* the voltage computed for T lies in the type's voltage domain, and is
\* TC_CONVERSION_FAILED when it does not.
C10_RoundTripInBothDomains ==
    \A c \in Callers :
        (/\ InTemperature(c)
         /\ origin[c].set
         /\ InDomain(origin[c].T, "TC_CalculateVoltage", type[c]))
            => IF InDomain(voltage[c], fn[c], type[c])
               THEN Close(ret[c], origin[c].T)
               ELSE ret[c] = TC_CONVERSION_FAILED

C10_Witness ==
    \E c \in Callers :
        /\ InTemperature(c)
        /\ origin[c].set
        /\ type[c] = TC_TYPE_J
        /\ origin[c].T = DFromInt(-8 * TGridStep, 0)
        /\ InDomain(voltage[c], fn[c], type[c])
        /\ ret[c] # origin[c].T
        /\ Close(ret[c], origin[c].T)

\* A call of Polynomial_Evaluate has been made by caller c's call
Evaluating(c) == pc[c] \notin {"idle", "overflow"} /\ trace[c].eval > 0

\* C11: every call the two public functions make to Polynomial_Evaluate
\* passes a coefficient pointer that is not NULL and a length >= 1, taken
\* from a range that holds the scalar, and no correction is computed for a
\* scalar that no range holds.
C11_EvaluatorPrecondition ==
    \A c \in Callers :
        /\ Evaluating(c)
              => /\ pe[c].pCoefficient # NULL
                 /\ pe[c].length >= 1
                 /\ InDomain(Scalar(c), fn[c], type[c])
        /\ (correction[c] # DZero)
              => InDomain(Scalar(c), fn[c], type[c])

\* The entries of a table whose closed interval holds the probe
Matches(table, v) ==
    {k \in 1..Len(table) : Within(v, table[k].min, table[k].max)}
First(S) == CHOOSE k \in S : \A j \in S : k <= j
FirstMatch(name, table, v) ==
    IF Matches(table, v) = {} THEN NullPoly
    ELSE [table |-> name, index |-> First(Matches(table, v)) - 1]
FoundPoly(c) == fn[c] = "FindPolyCoeff" /\ pc[c] = "done"

\* C12: FindPolyCoeff returns, for any table and probe, the coefficients of
\* the first entry in table order whose closed interval [min, max] holds
\* the probe, and NULL exactly when no entry holds it.
C12_FirstMatchingEntry ==
    \A c \in Callers :
        FoundPoly(c)
            => /\ poly[c] = FirstMatch("table", rom["table"], fpc[c].value)
               /\ (poly[c] = NullPoly)
                     <=> (Matches(rom["table"], fpc[c].value) = {})

C12_Witness ==
    \E c \in Callers :
        /\ FoundPoly(c)
        /\ Len(rom["table"]) = 2
        /\ rom["table"][1].max = fpc[c].value
        /\ rom["table"][2].min = fpc[c].value
        /\ Matches(rom["table"], fpc[c].value) = {1, 2}
        /\ poly[c] = [table |-> "table", index |-> 0]

\* The range tables of the library and the calls that scan one
TableNames == DOMAIN StaticTables
ScannedTable(c) == Returned(c) /\ ValidType(type[c]) /\ ranges[c] # NULL

\* C13 as stated: in every range table at most one entry can hold any probe
\* value.
C13_AtMostOneMatch ==
    \A c \in Callers :
        ScannedTable(c)
            => Cardinality(Matches(rom[ranges[c]], Scalar(c))) <= 1

\* Two entries of a table meet in one point when they are adjacent and in no
\* point otherwise
MeetOnlyAtSharedBound(table) ==
    \A j \in 1..Len(table) : \A k \in (j + 1)..Len(table) :
        IF k = j + 1 THEN table[j].max = table[k].min
        ELSE DLt(table[j].max, table[k].min)
SharedBoundAt(table, v, k) ==
    k < Len(table) /\ v = table[k].max /\ v = table[k + 1].min

\* C13 amended: in every range table two entries overlap only in the bound
\* that two adjacent entries share.  A probe equal to such a bound is held
\* by exactly those two entries and the earlier one is selected, so there
\* the scan order decides; any other probe is held by at most one entry,
\* which is the one selected.
C13_OverlapOnlyAtSharedBounds ==
    /\ \A n \in TableNames : MeetOnlyAtSharedBound(rom[n])
    /\ \A c \in Callers :
           ScannedTable(c)
               => IF \E k \in 1..Len(rom[ranges[c]]) :
                         SharedBoundAt(rom[ranges[c]], Scalar(c), k)
                  THEN \E k \in 1..Len(rom[ranges[c]]) :
                          /\ Matches(rom[ranges[c]], Scalar(c)) = {k, k + 1}
                          /\ poly[c] = [table |-> ranges[c], index |-> k - 1]
                  ELSE /\ Cardinality(Matches(rom[ranges[c]], Scalar(c))) <= 1
                       /\ \A k \in Matches(rom[ranges[c]], Scalar(c)) :
                              poly[c] = [table |-> ranges[c], index |-> k - 1]

C13_Witness ==
    \E c \in Callers :
        /\ ScannedTable(c)
        /\ ranges[c] = "TC_R_mVToTemp"
        /\ Matches(rom[ranges[c]], Scalar(c)) = {2, 3}
        /\ poly[c] = [table |-> ranges[c], index |-> 1]
        /\ pe[c].pCoefficient = "TC_Coeff_R_mVToTemp_Range2"

\* For integer coefficients cs and the input n/2, the exact value of
\* cs[from] + cs[from+1]*x + ... + cs[Len(cs)]*x^(Len(cs)-from) times
\* 2^(Len(cs)-from), summed from index j on
RECURSIVE IntPow(_, _)
IntPow(b, k) == IF k = 0 THEN 1 ELSE b * IntPow(b, k - 1)
RECURSIVE PolyNumerator(_, _, _, _)
PolyNumerator(cs, n, from, j) ==
    IF j > Len(cs) THEN 0
    ELSE DNearestInt(cs[j]) * IntPow(n, j - from) * IntPow(2, Len(cs) - j)
             + PolyNumerator(cs, n, from, j + 1)
PolyValue(cs, x, from) ==
    IF from > Len(cs) THEN DZero
    ELSE DFromInt(PolyNumerator(cs, DNearestInt(DScale(x, 1)), from, from),
                  from - Len(cs))
InEvaluate(c) ==
    fn[c] = "Polynomial_Evaluate" /\ pc[c] \in {"eval", "return", "done"}

\* C14: Polynomial_Evaluate returns c[0] + c[1]*x + ... + c[n-1]*x^(n-1)
\* for every coefficient sequence of length n >= 1 and every input x, by
\* Horner's scheme: result starts at 0 and, after the turn of the loop for
\* index i, is c[i] + c[i+1]*x + ... + c[n-1]*x^(n-1-i), for i from n-1 down
\* to 0; n turns are made.
C14_HornerValue ==
    \A c \in Callers :
        InEvaluate(c)
            => /\ pe[c].result =
                      PolyValue(rom["coefficients"], pe[c].input, pe[c].i + 2)
               /\ trace[c].iters = pe[c].length - 1 - pe[c].i
               /\ pc[c] = "done"
                     => /\ pe[c].i = -1
                        /\ ret[c] = PolyValue(rom["coefficients"],
                                              pe[c].input, 1)

C14_Witness ==
    \E c \in Callers :
        /\ InEvaluate(c)
        /\ pc[c] = "done"
        /\ rom["coefficients"] =
               << DFromInt(1, 0), DFromInt(-2, 0), DFromInt(2, 0) >>
        /\ pe[c].input = DFromInt(3, -1)
        /\ trace[c].iters = 3
        /\ ret[c] = DFromInt(5, -1)

\* The length stored in every PolyCoeff of a table is the number of elements
\* of the array it points to, and an int8_t holds it
LengthsExact(table) ==
    \A k \in 1..Len(table) :
        /\ table[k].poly.pCoefficients \in DOMAIN StaticArrays
        /\ table[k].poly.length = Len(rom[table[k].poly.pCoefficients])
        /\ table[k].poly.length >= 1
        /\ table[k].poly.length <= 127

\* C15: no call of either public function dereferences a NULL pointer or
\* reads outside an array: the scan reads ranges[i] only for 0 <= i < the
\* number of entries of a table, every stored length is the real number of
\* coefficients and at most 127, the index of Polynomial_Evaluate starts at
\* length - 1 without wrapping and pCoefficient[i] is read only for
\* 0 <= i < the number of elements of an array.
C15_ReadsInBounds ==
    /\ \A n \in TableNames : LengthsExact(rom[n])
    /\ \A c \in Callers :
           /\ pc[c] # "fault"
           /\ (pc[c] = "find" /\ fpc[c].i < fpc[c].len)
                 => /\ fpc[c].ranges \in TableNames
                    /\ fpc[c].i + 1 \in 1..Len(rom[fpc[c].ranges])
           /\ (pc[c] = "eval")
                 => /\ pe[c].length <= 127
                    /\ pe[c].i >= -1
                    /\ pe[c].i <= pe[c].length - 1
                    /\ pe[c].i >= 0
                          => /\ pe[c].pCoefficient \in DOMAIN StaticArrays
                             /\ pe[c].i + 1 \in
                                    1..Len(rom[pe[c].pCoefficient])

C15_Witness ==
    \E c \in Callers :
        /\ InVoltage(c)
        /\ type[c] = TC_TYPE_K
        /\ temperature[c] = DFromInt(-TGridBelow * TGridStep, 0)
        /\ pe[c].pCoefficient = NULL
        /\ pe[c].length = 0
        /\ trace[c].eval = 1
        /\ trace[c].iters = 0

InCall(c) == pc[c] \notin {"idle", "done", "overflow"}

\* C16: every call of TC_CalculateTemperature and TC_CalculateVoltage, for
\* every type value and scalar, returns, after scanning at most 4 range
\* entries and making at most 15 Horner iterations.
C16_CallsTerminate ==
    /\ [](\A c \in Callers :
             /\ trace[c].scanned <= 4
             /\ trace[c].iters <= 15
             /\ trace[c].find <= 1
             /\ trace[c].eval <= 1)
    /\ \A c \in Callers : InCall(c) ~> Returned(c)
    /\ [][Step(1) <=> StepControl(1)]_vars

C16_Witness ==
    \E c \in Callers :
        /\ InVoltage(c)
        /\ type[c] = TC_TYPE_T
        /\ pe[c].pCoefficient = "TC_Coeff_T_TempToMV_Range1"
        /\ trace[c].scanned = 1
        /\ trace[c].iters = 15
        /\ ret[c] # TC_CONVERSION_FAILED

AfterSprintf(c) == pc[c] \in {"printed", "overflow"}

\* C17: in the example program each sprintf of a conversion result
\* ("Temperature is %f", "Voltage is %f") into str writes at most the 20
\* bytes of str, the terminating NUL included, for every value the two
\* conversions can return.
C17_SprintfFitsStr ==
    \A c \in Callers : AfterSprintf(c) => Len(str) <= StrSize

\* The sprintf after the example's first call, TC_CalculateTemperature(TC_TYPE_K,
\* 17.85), writes 26 bytes
C17_ExampleOverflows ==
    /\ pc[1] = "overflow"
    /\ fn[1] = "TC_CalculateTemperature"
    /\ type[1] = TC_TYPE_K
    /\ voltage[1] = ExampleVoltage
    /\ Len(str) = 26


=============================================================================
